---- MODULE Spec2Model ----
(***************************************************************************)
(* Verification model of loxMqttRelay: the ingress pipeline                *)
(* (MiniserverDataProcessor.process_data and the functions it composes),   *)
(* the relay's message handler (MQTTRelay.received_mqtt_message) and the   *)
(* egress handler (HttpMiniserverHandler) in HTTP and WebSocket mode.      *)
(*                                                                         *)
(* Text is modelled as a sequence of one-character strings so that the     *)
(* character-level functions (normalize_topic, regex search, JSON parsing, *)
(* strip/lower) are computed the way the code computes them.               *)
(***************************************************************************)
EXTENDS Integers, Sequences, FiniteSets, TLC

(***************************************************************************)
(* Generic sequence helpers                                                *)
(***************************************************************************)
Range(s) == {s[i] : i \in DOMAIN s}

Slice(s, a, b) == IF a > b THEN <<>> ELSE SubSeq(s, a, b)

\* s occurs in t starting at position p
OccursAt(s, t, p) ==
    /\ p >= 1
    /\ p + Len(s) - 1 <= Len(t)
    /\ \A i \in 1..Len(s) : t[p + i - 1] = s[i]

(***************************************************************************)
(* Python values.  A scalar is a record [t, v]: t is the Python type and   *)
(* v the characters of str(value).                                         *)
(***************************************************************************)
PyStrVal(chars) == [t |-> "str", v |-> chars]
PyInt(chars)    == [t |-> "int", v |-> chars]
PyFloat(chars)  == [t |-> "float", v |-> chars]
PyTrue          == [t |-> "bool", v |-> <<"T", "r", "u", "e">>]
PyFalse         == [t |-> "bool", v |-> <<"F", "a", "l", "s", "e">>]
PyNone          == [t |-> "none", v |-> <<"N", "o", "n", "e">>]

\* str(value)
PyStr(x) == x.v

Digits == {"0", "1", "2", "3", "4", "5", "6", "7", "8", "9"}

\* the characters of a float's fraction are all zeros
ZeroFrac(chars, dot) == \A i \in (dot + 1)..Len(chars) : chars[i] = "0"

DotPos(chars) == CHOOSE i \in 1..Len(chars) : chars[i] = "."

\* bool(value) is False
PyFalsy(x) ==
    CASE x.t = "str"   -> x.v = <<>>
      [] x.t = "int"   -> x.v = <<"0">>
      [] x.t = "float" -> /\ Slice(x.v, 1, DotPos(x.v) - 1) = <<"0">>
                          /\ ZeroFrac(x.v, DotPos(x.v))
      [] x.t = "bool"  -> x = PyFalse
      [] OTHER         -> TRUE

\* The key under which functools.lru_cache files an argument: arguments that
\* compare equal and hash equal share an entry (1 == 1.0 == True).
PyKey(x) ==
    CASE x.t = "str"   -> [t |-> "str", v |-> x.v]
      [] x.t = "int"   -> [t |-> "num", v |-> x.v]
      [] x.t = "float" -> IF ZeroFrac(x.v, DotPos(x.v))
                          THEN [t |-> "num", v |-> Slice(x.v, 1, DotPos(x.v) - 1)]
                          ELSE [t |-> "num", v |-> x.v]
      [] x.t = "bool"  -> [t |-> "num", v |-> IF x = PyTrue THEN <<"1">> ELSE <<"0">>]
      [] OTHER         -> [t |-> "none", v |-> <<>>]

(***************************************************************************)
(* miniserver_data_processor.py: the pure functions                        *)
(***************************************************************************)
\* a table that also maps "0" to "1"
BOOLEAN_MAPPING_TRUE_AND_ZERO ==
    { <<"t","r","u","e">>, <<"y","e","s">>, <<"o","n">>,
      <<"e","n","a","b","l","e","d">>, <<"e","n","a","b","l","e">>, <<"1">>,
      <<"c","h","e","c","k">>, <<"c","h","e","c","k","e","d">>,
      <<"s","e","l","e","c","t">>, <<"s","e","l","e","c","t","e","d">>, <<"0">> }

BOOLEAN_MAPPING_TRUE ==
    { <<"t","r","u","e">>, <<"y","e","s">>, <<"o","n">>,
      <<"e","n","a","b","l","e","d">>, <<"e","n","a","b","l","e">>, <<"1">>,
      <<"c","h","e","c","k">>, <<"c","h","e","c","k","e","d">>,
      <<"s","e","l","e","c","t">>, <<"s","e","l","e","c","t","e","d">> }

BOOLEAN_MAPPING_FALSE ==
    { <<"f","a","l","s","e">>, <<"n","o">>, <<"o","f","f">>,
      <<"d","i","s","a","b","l","e","d">>, <<"d","i","s","a","b","l","e">>, <<"0">> }

\* str.lower() on the characters the model uses
LowerChar(c) ==
    CASE c = "A" -> "a" [] c = "B" -> "b" [] c = "C" -> "c" [] c = "D" -> "d"
      [] c = "E" -> "e" [] c = "F" -> "f" [] c = "G" -> "g" [] c = "H" -> "h"
      [] c = "I" -> "i" [] c = "J" -> "j" [] c = "K" -> "k" [] c = "L" -> "l"
      [] c = "M" -> "m" [] c = "N" -> "n" [] c = "O" -> "o" [] c = "P" -> "p"
      [] c = "Q" -> "q" [] c = "R" -> "r" [] c = "S" -> "s" [] c = "T" -> "t"
      [] c = "U" -> "u" [] c = "V" -> "v" [] c = "W" -> "w" [] c = "X" -> "x"
      [] c = "Y" -> "y" [] c = "Z" -> "z"
      [] OTHER -> c

Lower(s) == [i \in DOMAIN s |-> LowerChar(s[i])]

\* str.isspace() on the characters the model uses
IsSpace(c) == c \in {" ", "\t", "\n"}

RECURSIVE LStrip(_)
LStrip(s) == IF s # <<>> /\ IsSpace(Head(s)) THEN LStrip(Tail(s)) ELSE s

RECURSIVE RStrip(_)
RStrip(s) ==
    IF s # <<>> /\ IsSpace(s[Len(s)]) THEN RStrip(SubSeq(s, 1, Len(s) - 1)) ELSE s

Strip(s) == RStrip(LStrip(s))

\* a lookup that does not strip the value
ConvertBooleanUnstripped(val) ==
    IF PyFalsy(val) THEN val
    ELSE LET normalized_val == Lower(PyStr(val))
         IN  IF normalized_val \in BOOLEAN_MAPPING_TRUE THEN PyStrVal(<<"1">>)
             ELSE IF normalized_val \in BOOLEAN_MAPPING_FALSE THEN PyStrVal(<<"0">>)
             ELSE val

\* _convert_boolean without its cache: a falsy value is returned as it is,
\* a mapped token becomes the str "1" or "0", anything else is returned
\* as it is (with its type).
ConvertBoolean(val) ==
    IF PyFalsy(val) THEN val
    ELSE LET normalized_val == Lower(Strip(PyStr(val)))
         IN  IF normalized_val \in BOOLEAN_MAPPING_TRUE THEN PyStrVal(<<"1">>)
             ELSE IF normalized_val \in BOOLEAN_MAPPING_FALSE THEN PyStrVal(<<"0">>)
             ELSE val

\* normalize_topic that replaces '/' only
NormalizeTopicSlashOnly(topic) ==
    IF "/" \notin Range(topic) /\ "%" \notin Range(topic) THEN topic
    ELSE [i \in DOMAIN topic |-> IF topic[i] = "/" THEN "_" ELSE topic[i]]

\* normalize_topic without its cache
NormalizeTopic(topic) ==
    IF "/" \notin Range(topic) /\ "%" \notin Range(topic) THEN topic
    ELSE [i \in DOMAIN topic |->
            IF topic[i] = "/" \/ topic[i] = "%" THEN "_" ELSE topic[i]]

(***************************************************************************)
(* Filters.  A filter source is modelled as an anchored literal            *)
(* [valid, bol, eol, lit]: the regex  ^?lit$?  ; valid = FALSE stands for  *)
(* a source that re.compile rejects.  A compiled filter is the sequence of *)
(* the valid sources (their alternation), <<>> standing for None.          *)
(***************************************************************************)
NoPattern == <<>>

RECURSIVE ValidFilters(_)
ValidFilters(filters) ==
    IF filters = <<>> THEN <<>>
    ELSE (IF Head(filters).valid THEN <<Head(filters)>> ELSE <<>>)
         \o ValidFilters(Tail(filters))

\* _compile_filters
CompileFilters(filters) ==
    IF filters = <<>> THEN NoPattern
    ELSE IF ValidFilters(filters) = <<>> THEN NoPattern
    ELSE ValidFilters(filters)

\* the regex of one source finds a match somewhere in s
SourceSearch(f, s) ==
    \E p \in 1..(Len(s) + 1) :
        /\ OccursAt(f.lit, s, p)
        /\ f.bol => p = 1
        /\ f.eol => p + Len(f.lit) - 1 = Len(s)

\* pattern.search(s) for the alternation
Search(pattern, s) == \E i \in DOMAIN pattern : SourceSearch(pattern[i], s)

\* "pattern and pattern.search(topic)"
Matches(pattern, s) == pattern # NoPattern /\ Search(pattern, s)

(***************************************************************************)
(* orjson.loads on the JSON fragment the model's payloads are written in:  *)
(* objects, arrays, strings without escapes, non-negative numbers without  *)
(* exponent, true, false, null, blanks between tokens.  A parsed value is  *)
(*   [t |-> "obj", v |-> sequence of [k |-> key, c |-> child]]   (a dict)  *)
(*   [t |-> "arr", v |-> sequence of children]                   (a list)  *)
(*   a scalar [t, v] as above.                                             *)
(***************************************************************************)
Quote == "\""

CharAt(s, i) == IF i >= 1 /\ i <= Len(s) THEN s[i] ELSE "EOF"

RECURSIVE SkipWs(_, _)
SkipWs(s, i) == IF CharAt(s, i) = " " THEN SkipWs(s, i + 1) ELSE i

ParseFail == [ok |-> FALSE, val |-> PyNone, pos |-> 0]

ParseOk(val, pos) == [ok |-> TRUE, val |-> val, pos |-> pos]

\* first position >= i that does not hold a digit
RECURSIVE DigitsEnd(_, _)
DigitsEnd(s, i) == IF CharAt(s, i) \in Digits THEN DigitsEnd(s, i + 1) ELSE i

\* str(float(text)) for a text  int.frac : trailing zeros of the fraction go,
\* one digit stays
RECURSIVE TrimFrac(_)
TrimFrac(chars) ==
    IF Len(chars) >= 2 /\ chars[Len(chars)] = "0" /\ chars[Len(chars) - 1] # "."
    THEN TrimFrac(SubSeq(chars, 1, Len(chars) - 1))
    ELSE chars

ParseNumber(s, i) ==
    LET intEnd == IF CharAt(s, i) = "0" THEN i + 1 ELSE DigitsEnd(s, i)
    IN  IF intEnd = i THEN ParseFail
        ELSE IF CharAt(s, intEnd) = "."
             THEN LET fracEnd == DigitsEnd(s, intEnd + 1)
                  IN  IF fracEnd = intEnd + 1 THEN ParseFail
                      ELSE ParseOk(PyFloat(TrimFrac(Slice(s, i, fracEnd - 1))), fracEnd)
             ELSE ParseOk(PyInt(Slice(s, i, intEnd - 1)), intEnd)

\* position of the closing quote of a string whose text starts at i (0: none)
RECURSIVE StringEnd(_, _)
StringEnd(s, i) ==
    IF i > Len(s) THEN 0
    ELSE IF s[i] = Quote THEN i
    ELSE StringEnd(s, i + 1)

\* s[i] is the opening quote
ParseString(s, i) ==
    LET close == StringEnd(s, i + 1)
    IN  IF close = 0 THEN ParseFail
        ELSE ParseOk(PyStrVal(Slice(s, i + 1, close - 1)), close + 1)

ParseLiteral(s, i, word, val) ==
    IF OccursAt(word, s, i) THEN ParseOk(val, i + Len(word)) ELSE ParseFail

\* dict[k] = c : a key already present keeps its place and takes the new value
DictSet(d, k, c) ==
    IF \E j \in DOMAIN d : d[j].k = k
    THEN [j \in DOMAIN d |-> IF d[j].k = k THEN [k |-> k, c |-> c] ELSE d[j]]
    ELSE Append(d, [k |-> k, c |-> c])

RECURSIVE ParseValue(_, _), ParseMembers(_, _, _), ParseElements(_, _, _)

\* i is at the first non-blank character of the value
ParseValue(s, i) ==
    LET c == CharAt(s, i)
    IN  CASE c = "{" ->
               LET j == SkipWs(s, i + 1)
               IN  IF CharAt(s, j) = "}"
                   THEN ParseOk([t |-> "obj", v |-> <<>>], j + 1)
                   ELSE ParseMembers(s, j, <<>>)
          [] c = "[" ->
               LET j == SkipWs(s, i + 1)
               IN  IF CharAt(s, j) = "]"
                   THEN ParseOk([t |-> "arr", v |-> <<>>], j + 1)
                   ELSE ParseElements(s, j, <<>>)
          [] c = Quote -> ParseString(s, i)
          [] c \in Digits -> ParseNumber(s, i)
          [] c = "t" -> ParseLiteral(s, i, <<"t","r","u","e">>, PyTrue)
          [] c = "f" -> ParseLiteral(s, i, <<"f","a","l","s","e">>, PyFalse)
          [] c = "n" -> ParseLiteral(s, i, <<"n","u","l","l">>, PyNone)
          [] OTHER -> ParseFail

\* i is at the first non-blank character of a member  "key" : value
ParseMembers(s, i, acc) ==
    IF CharAt(s, i) # Quote THEN ParseFail
    ELSE LET key == ParseString(s, i)
         IN  IF ~key.ok THEN ParseFail
             ELSE LET colon == SkipWs(s, key.pos)
                  IN  IF CharAt(s, colon) # ":" THEN ParseFail
                      ELSE LET child == ParseValue(s, SkipWs(s, colon + 1))
                           IN  IF ~child.ok THEN ParseFail
                               ELSE LET next == SkipWs(s, child.pos)
                                        d == DictSet(acc, key.val.v, child.val)
                                    IN  CASE CharAt(s, next) = "," ->
                                               ParseMembers(s, SkipWs(s, next + 1), d)
                                          [] CharAt(s, next) = "}" ->
                                               ParseOk([t |-> "obj", v |-> d], next + 1)
                                          [] OTHER -> ParseFail

\* i is at the first non-blank character of an element
ParseElements(s, i, acc) ==
    LET child == ParseValue(s, i)
    IN  IF ~child.ok THEN ParseFail
        ELSE LET next == SkipWs(s, child.pos)
                 a == Append(acc, child.val)
             IN  CASE CharAt(s, next) = "," ->
                        ParseElements(s, SkipWs(s, next + 1), a)
                   [] CharAt(s, next) = "]" ->
                        ParseOk([t |-> "arr", v |-> a], next + 1)
                   [] OTHER -> ParseFail

\* orjson.loads(val): ok = FALSE stands for JSONDecodeError
Loads(s) ==
    LET r == ParseValue(s, SkipWs(s, 1))
    IN  IF r.ok /\ SkipWs(s, r.pos) = Len(s) + 1 THEN r ELSE ParseFail

(***************************************************************************)
(* flatten_dict and expand_json                                            *)
(***************************************************************************)
\* str(i) for a list index
IndexChars(i) ==
    LET d == <<"0", "1", "2", "3", "4", "5", "6", "7", "8", "9">>
    IN  IF i < 10 THEN <<d[i + 1]>> ELSE <<d[(i \div 10) + 1], d[(i % 10) + 1]>>

\* {str(i): v for i, v in enumerate(lst)}
EnumDict(lst) == [i \in DOMAIN lst |-> [k |-> IndexChars(i - 1), c |-> lst[i]]]

\* dict(items) for a list of (key, value) items
RECURSIVE DictOfItems(_, _)
DictOfItems(items, acc) ==
    IF items = <<>> THEN acc
    ELSE DictOfItems(Tail(items), DictSet(acc, Head(items).k, Head(items).c))

\* f"{parent_key}{sep}{k}" if parent_key else k
NewKey(parent_key, k) == IF parent_key # <<>> THEN parent_key \o <<"/">> \o k ELSE k

RECURSIVE FlattenDict(_, _), FlattenItems(_, _)

\* the items list that the loop over d.items() builds
FlattenItems(members, parent_key) ==
    IF members = <<>> THEN <<>>
    ELSE LET new_key == NewKey(parent_key, Head(members).k)
             v == Head(members).c
             here == CASE v.t = "obj" -> FlattenDict(v.v, new_key)
                       [] v.t = "arr" -> FlattenDict(EnumDict(v.v), new_key)
                       [] OTHER -> << [k |-> new_key, c |-> v] >>
         IN  here \o FlattenItems(Tail(members), parent_key)

\* flatten_dict(d, parent_key): d is the member sequence of a dict
FlattenDict(members, parent_key) ==
    DictOfItems(FlattenItems(members, parent_key), <<>>)

Pair(topic, value) == [topic |-> topic, value |-> value]

\* expand_json(topic, val)
ExpandJson(topic, val) ==
    LET obj == Loads(val)
    IN  IF obj.ok /\ obj.val.t = "obj"
        THEN LET flat == FlattenDict(obj.val.v, <<>>)
             IN  [i \in DOMAIN flat |-> Pair(topic \o <<"/">> \o flat[i].k, flat[i].c)]
        ELSE << Pair(topic, PyStrVal(val)) >>

(***************************************************************************)
(* State                                                                   *)
(***************************************************************************)
VARIABLES
    \* MiniserverDataProcessor
    compiled_subscription_filter, topic_whitelist, do_not_forward_patterns,
    caches,
    \* global_config: general.cache_size (read once, when the cached methods
    \* are defined), processing.expand_json, debug.publish_processed_topics
    cache_size, expand_json, publish_processed_topics,
    \* MQTTClient._conn
    conn,
    \* the rest of the MQTTClient and of its transport: whether the transport
    \* is connected, what was handed to it since it connected, the calls of
    \* publish, the call of connect, the messages that arrived
    client,
    \* the message handled last by MQTTRelay.received_mqtt_message:
    \* whether there is one, its topic, its payload as received, what
    \* expansion yielded, what process_data returned, the publications handed
    \* to the transport, whether process_data raised, the pairs for which a
    \* send_to_miniserver task was created, the error the handler logged
    handled, in_topic, in_payload, processed_tuples, final_data, published,
    raised, dispatched, logged

procVars == <<compiled_subscription_filter, topic_whitelist, do_not_forward_patterns,
              cache_size, expand_json, publish_processed_topics>>

msgVars == <<handled, in_topic, in_payload, processed_tuples, final_data, published,
             raised, dispatched, logged>>

clientVars == <<conn, client>>

pipelineVars == <<procVars, caches, clientVars, msgVars>>

EmptyCaches == [norm |-> <<>>, wl |-> <<>>, bool |-> <<>>]

VARIABLES
    \* global_config.miniserver.miniserver_max_parallel_connections
    miniserver_max_parallel_connections,
    \* HttpMiniserverHandler.connection_semaphore: _value and _waiters (the
    \* tasks whose future is queued, oldest first)
    sem_value, sem_waiters,
    \* the event loop's queue of tasks that are ready to run
    loop_ready,
    \* per call of send_to_miniserver_via_http: its data (<<>>: no call in
    \* progress) and its results dict
    http_data, http_results,
    \* per send_single_request task: where it stands, the status it recorded,
    \* how often it entered and left the semaphore
    http_task,
    \* the call of send_to_miniserver that returned last: its data, the code
    \* that each forward recorded, whether the echo was enabled, the calls of
    \* the publish callback, what reached the transport, and whether an
    \* exception left the call
    forwarded

httpVars == <<miniserver_max_parallel_connections, sem_value, sem_waiters, loop_ready,
              http_data, http_results, http_task, forwarded>>

NoForward == [ran |-> FALSE, data |-> <<>>, codes |-> <<>>, enabled |-> FALSE,
              calls |-> <<>>, published |-> <<>>, raised |-> FALSE]

VARIABLES
    \* the WebSocket session: its state and the owner of its connect guard
    \* (0: nobody)
    ws_state, ws_guard,
    \* per call of send_to_minisever_via_websocket: where it stands, its
    \* data, the index of the loop, its results dict, what it saw of the
    \* session, the number of send_websocket_command calls it made, the
    \* session states in which its commands went out on the connection
    ws_sender

wsVars == <<ws_state, ws_guard, ws_sender>>

egressVars == <<httpVars, wsVars>>

VARIABLES
    \* global_config._config, by section, and the configuration file:
    \* whether there is one, and the document it holds
    config, config_file,
    \* the call of MQTTRelay.handle_miniserver_sync that ran last: whether
    \* there is one, the whitelists of the configuration and of the processor
    \* before it, what sync_miniserver_whitelist returned, whether the attempt
    \* failed, whether the call raised
    sync_call,
    \* the control message that received_mqtt_message handled last: its
    \* topic, the configuration and the file before it, the configuration
    \* that update_fields left, what was handed to MQTTClient.publish, the
    \* exception that ended it, whether the handler logged it or let it
    \* escape, whether the program was restarted
    ctl,
    \* MQTTRelay.ui_process: "None", or a Popen whose process is "alive" or
    \* "exited"; the --headless argument
    ui_process, headless,
    \* the UI processes that this program started and that are alive, held
    \* in ui_process or not
    ui_live

uiVars == <<ui_process, ui_live>>

ctlVars == <<config, config_file, sync_call, ctl, uiVars, headless>>

VARIABLES
    \* a call of a pure function of the processor on its own: the function,
    \* its argument, its result, the result of calling it on that result, and
    \* how many of the two calls were made
    fn_call

NoCall == [f |-> "none", arg |-> PyNone, res |-> PyNone, again |-> PyNone, step |-> 0]

\* what the transport (gmqtt's Client.publish) was handed: the status that
\* _on_connect publishes, or the message of the publish call number id
StatusConnected == [status |-> TRUE, id |-> 0]
Handed(id) == [status |-> FALSE, id |-> id]

NoPublish == [ran |-> FALSE, id |-> 0, link |-> FALSE, handed |-> FALSE,
              warned |-> FALSE, raised |-> FALSE]

\* MQTTClient.__init__: the transport is not connected, connect was not
\* called, nothing was published and nothing arrived.
\*   link: after an on_connect and before the next on_disconnect
\*   sent: what the transport was handed since it connected
\*   calls, pub, dropped: the calls of publish, the last of them, and the
\*     calls that returned at the warning
\*   phase, attempts, failures, slept, accepted: the call of connect, the
\*     attempts it made, those that failed, the seconds it slept, whether its
\*     last attempt succeeded
\*   arrived, outcomes, rets, escaped: the messages that arrived, per call
\*     of the callback what it did, per return of _on_message what it
\*     returned; whether an exception left _on_message
\*   received, delivered: the payload of the message that arrived last, as
\*     the transport handed it over and as the callback got it
NoClient == [link |-> FALSE, sent |-> {}, calls |-> 0, pub |-> NoPublish, dropped |-> {},
             phase |-> "idle", attempts |-> 0, failures |-> 0, slept |-> 0,
             accepted |-> FALSE,
             arrived |-> 0, outcomes |-> <<>>, rets |-> <<>>, escaped |-> FALSE,
             received |-> <<>>, delivered |-> <<>>,
             topics |-> <<>>, subscribed |-> {}, configured |-> {}]

\* the client of a relay whose _conn is as given and that did nothing else

\* the filter state of the processor as process_data reads it
Proc == [sub |-> compiled_subscription_filter, wl |-> topic_whitelist,
         dnf |-> do_not_forward_patterns]

(***************************************************************************)
(* functools.lru_cache(maxsize = cache_size).  A cache is the sequence of  *)
(* its entries [k, r], least recently used first.                          *)
(***************************************************************************)
LruHit(cache, key) == \E i \in DOMAIN cache : cache[i].k = key

LruIndex(cache, key) == CHOOSE i \in DOMAIN cache : cache[i].k = key

\* the cache after a hit on key: its entry becomes the most recent
LruTouch(cache, key) ==
    LET i == LruIndex(cache, key)
    IN  Slice(cache, 1, i - 1) \o Slice(cache, i + 1, Len(cache)) \o <<cache[i]>>

\* the cache after a miss on key whose call returned r
LruInsert(cache, key, r) ==
    LET c == Append(cache, [k |-> key, r |-> r])
    IN  IF Len(c) > cache_size THEN Tail(c) ELSE c

\* one call through the cache: the value returned and the cache afterwards
LruCall(cache, key, computed) ==
    IF LruHit(cache, key)
    THEN [res |-> cache[LruIndex(cache, key)].r, cache |-> LruTouch(cache, key)]
    ELSE [res |-> computed, cache |-> LruInsert(cache, key, computed)]

\* The three caches of the processor travel together as [norm, wl, bool].
\* normalize_topic(topic) through its cache
NormalizeCall(memo, topic) ==
    LET r == LruCall(memo.norm, topic, NormalizeTopic(topic))
    IN  [res |-> r.res, caches |-> [memo EXCEPT !.norm = r.cache]]

\* is_in_whitelist(topic) through its cache; a miss calls normalize_topic
IsInWhitelistCall(memo, whitelist, topic) ==
    IF LruHit(memo.wl, topic)
    THEN [res |-> memo.wl[LruIndex(memo.wl, topic)].r,
          caches |-> [memo EXCEPT !.wl = LruTouch(memo.wl, topic)]]
    ELSE LET n == NormalizeCall(memo, topic)
             r == n.res \in whitelist
         IN  [res |-> r,
              caches |-> [n.caches EXCEPT !.wl = LruInsert(memo.wl, topic, r)]]

\* _convert_boolean(val) through its cache
ConvertBooleanCall(memo, val) ==
    LET r == LruCall(memo.bool, PyKey(val), ConvertBoolean(val))
    IN  [res |-> r.res, caches |-> [memo EXCEPT !.bool = r.cache]]

(***************************************************************************)
(* process_data.  proc is the processor's filter state                     *)
(* [sub, wl, dnf] = [compiled_subscription_filter, topic_whitelist,        *)
(* do_not_forward_patterns].                                               *)
(***************************************************************************)
\* a first pass that lets every message through
FirstPassDropsNothing(proc, topic) == FALSE

\* 1) first pass: the whole message is dropped
FirstPassDrops(proc, topic) == Matches(proc.sub, topic)

\* a flattening that does not read expand_json
ExpandAlways(expand, topic, message) == ExpandJson(topic, message)

\* 2) flatten data
Expand(expand, topic, message) ==
    IF expand THEN ExpandJson(topic, message)
    ELSE << Pair(topic, PyStrVal(message)) >>

\* A publish on {base_topic}<sub><name>; base_topic is a fixed prefix.
Publication(sub, name, body) == [sub |-> sub, name |-> name, body |-> body, retain |-> FALSE]

\* Debug echo loop.  MQTTClient.publish drops the message while _conn is not
\* set, hands it to the transport otherwise; the transport call may raise and
\* publish re-raises.  failAt is the number of the transport call that raises
\* (0: none does).  Result: the publications handed over, the caches, and
\* whether the exception left the loop.
RECURSIVE EchoLoop(_, _, _, _, _, _)
EchoLoop(tuples, memo, connected, failAt, calls, out) ==
    IF tuples = <<>> THEN [raised |-> FALSE, published |-> out, caches |-> memo]
    ELSE LET n == NormalizeCall(memo, Head(tuples).topic)
             pub == Publication("processedtopics/", n.res, PyStr(Head(tuples).value))
         IN  IF ~connected
             THEN EchoLoop(Tail(tuples), n.caches, connected, failAt, calls, out)
             ELSE IF calls + 1 = failAt
             THEN [raised |-> TRUE, published |-> out, caches |-> n.caches]
             ELSE EchoLoop(Tail(tuples), n.caches, connected, failAt, calls + 1,
                           Append(out, pub))

\* a final filtering without the whitelist gate
GateDropsWithoutWhitelist(proc, inWhitelist, topic) ==
    Matches(proc.sub, topic) \/ Matches(proc.dnf, topic)

\* 3) the gates of the final filtering, in the order of the code;
\* inWhitelist is the answer of is_in_whitelist (consulted only when the
\* whitelist is not empty)
GateDrops(proc, inWhitelist, topic) ==
    IF proc.wl # {} /\ ~inWhitelist THEN TRUE
    ELSE IF Matches(proc.sub, topic) THEN TRUE
    ELSE IF Matches(proc.dnf, topic) THEN TRUE
    ELSE FALSE

RECURSIVE FinalFiltering(_, _, _, _)
FinalFiltering(tuples, proc, memo, acc) ==
    IF tuples = <<>> THEN [final |-> acc, caches |-> memo]
    ELSE LET t == Head(tuples)
             w == IF proc.wl # {}
                  THEN IsInWhitelistCall(memo, proc.wl, t.topic)
                  ELSE [res |-> TRUE, caches |-> memo]
         IN  IF GateDrops(proc, w.res, t.topic)
             THEN FinalFiltering(Tail(tuples), proc, w.caches, acc)
             ELSE LET b == ConvertBooleanCall(w.caches, t.value)
                  IN  FinalFiltering(Tail(tuples), proc, b.caches,
                                     Append(acc, Pair(t.topic, b.res)))

\* process_data(topic, message, mqtt_publish_callback): callback tells whether
\* a callback was passed.  raised = TRUE: the publish error left process_data.
ProcessData(topic, message, proc, expand, publishProcessed, callback, memo, connected, failAt) ==
    IF FirstPassDrops(proc, topic)
    THEN [raised |-> FALSE, tuples |-> <<>>, published |-> <<>>, final |-> <<>>,
          caches |-> memo]
    ELSE LET tuples == Expand(expand, topic, message)
             echo == IF publishProcessed /\ callback
                     THEN EchoLoop(tuples, memo, connected, failAt, 0, <<>>)
                     ELSE [raised |-> FALSE, published |-> <<>>, caches |-> memo]
         IN  IF echo.raised
             THEN [raised |-> TRUE, tuples |-> tuples, published |-> echo.published,
                   final |-> <<>>, caches |-> echo.caches]
             ELSE LET f == FinalFiltering(tuples, proc, echo.caches, <<>>)
                  IN  [raised |-> FALSE, tuples |-> tuples,
                       published |-> echo.published, final |-> f.final,
                       caches |-> f.caches]

(***************************************************************************)
(* Inputs of the model: topics, filter sources, whitelists and payloads.   *)
(***************************************************************************)
\* json.dumps(o): how the payloads that carry a JSON document are written
RECURSIVE Serialize(_), SerializeMembers(_), SerializeElements(_)
Serialize(x) ==
    CASE x.t = "obj"  -> <<"{">> \o SerializeMembers(x.v) \o <<"}">>
      [] x.t = "arr"  -> <<"[">> \o SerializeElements(x.v) \o <<"]">>
      [] x.t = "str"  -> <<Quote>> \o x.v \o <<Quote>>
      [] x.t = "bool" -> IF x.v = PyTrue.v THEN <<"t","r","u","e">>
                         ELSE <<"f","a","l","s","e">>
      [] x.t = "none" -> <<"n","u","l","l">>
      [] OTHER        -> x.v

SerializeMembers(ms) ==
    IF ms = <<>> THEN <<>>
    ELSE <<Quote>> \o Head(ms).k \o <<Quote, ":", " ">> \o Serialize(Head(ms).c)
         \o (IF Tail(ms) = <<>> THEN <<>> ELSE <<",", " ">> \o SerializeMembers(Tail(ms)))

SerializeElements(es) ==
    IF es = <<>> THEN <<>>
    ELSE Serialize(Head(es))
         \o (IF Tail(es) = <<>> THEN <<>> ELSE <<",", " ">> \o SerializeElements(Tail(es)))

Obj(members) == [t |-> "obj", v |-> members]
Arr(elements) == [t |-> "arr", v |-> elements]
Member(k, c) == [k |-> k, c |-> c]

\* the JSON documents that payloads carry
JsonDocs ==
    << Obj(<< Member(<<"k">>, PyInt(<<"1">>)) >>),
       Obj(<< Member(<<"k">>, PyTrue),
              Member(<<"b">>, Obj(<< Member(<<"k">>, PyStrVal(<<"o","n">>)) >>)) >>),
       Obj(<< Member(<<"b">>, Arr(<< PyInt(<<"0">>), PyNone, PyFalse >>)) >>),
       Obj(<< Member(<<"k">>, Obj(<<>>)) >>),
       Obj(<< Member(<<"a","/","b">>, PyInt(<<"1">>)),
              Member(<<"a">>, Obj(<< Member(<<"b">>, PyInt(<<"2">>)) >>)) >>),
       Obj(<< Member(<<>>, Obj(<< Member(<<"k">>, PyFloat(<<"1",".","0">>)) >>)) >>) >>

\* a byte that is not valid UTF-8
InvalidByte == "#FF"

\* payloads that are no JSON object: plain text, a root scalar, a root array,
\* malformed JSON, the empty payload, bytes that are not UTF-8
PlainPayloads ==
    { <<" ","O","F","F"," ">>, <<>>, <<"[","1","]">>,
      <<"{", Quote, "k", Quote, ":", "1">>,
      <<InvalidByte, "o", "n", InvalidByte>> }

Payloads == PlainPayloads \cup {Serialize(JsonDocs[i]) : i \in DOMAIN JsonDocs}

Topics == { <<"a">>, <<"a","/","b">>, <<"b","%">> }

Source(valid, bol, eol, lit) == [valid |-> valid, bol |-> bol, eol |-> eol, lit |-> lit]

\* the regex sources  b$ ,  /k ,  ^a/  and a source that does not compile
SrcEndB   == Source(TRUE, FALSE, TRUE, <<"b">>)
SrcKey    == Source(TRUE, FALSE, FALSE, <<"/","k">>)
SrcStartA == Source(TRUE, TRUE, FALSE, <<"a","/">>)
SrcBad    == Source(FALSE, FALSE, FALSE, <<"(">>)

SubscriptionFilterLists == { <<>>, <<SrcBad>>, <<SrcEndB, SrcBad, SrcKey>> }

DoNotForwardLists == { <<>>, <<SrcStartA>> }

Whitelists ==
    { {}, { <<"a","_","k">>, <<"a","_","b","_","b","_","0">>, <<"b","_">> } }

(***************************************************************************)
(* config.py: the configuration.  A section is the dict of its dataclass,  *)
(* in the order of the fields; the model carries the sections and fields   *)
(* that the control plane reads or writes.  A list is [t |-> "arr"], a set *)
(* is [t |-> "set", v |-> its elements].                                   *)
(***************************************************************************)
PySet(elements) == [t |-> "set", v |-> elements]

F_host == <<"h","o","s","t">>
F_user == <<"u","s","e","r">>
F_password == <<"p","a","s","s","w","o","r","d">>
F_miniserver_user == <<"m","i","n","i","s","e","r","v","e","r","_","u","s","e","r">>
F_miniserver_pass == <<"m","i","n","i","s","e","r","v","e","r","_","p","a","s","s">>
F_sync_with_miniserver ==
    <<"s","y","n","c","_","w","i","t","h","_","m","i","n","i","s","e","r","v","e","r">>
F_subscriptions == <<"s","u","b","s","c","r","i","p","t","i","o","n","s">>
F_topic_whitelist == <<"t","o","p","i","c","_","w","h","i","t","e","l","i","s","t">>

ConfigSection == {"broker", "miniserver", "topics"}

DictHas(d, k) == \E j \in DOMAIN d : d[j].k = k

DictGet(d, k) == d[CHOOSE j \in DOMAIN d : d[j].k = k].c

\* d.pop(k, None)
DictPop(d, k) == SelectSeq(d, LAMBDA m : m.k # k)

\* AppConfig(): the defaults of the dataclasses
AppConfig ==
    [broker     |-> << Member(F_host, PyStrVal(<<"l","o","c","a","l","h","o","s","t">>)),
                       Member(F_user, PyNone),
                       Member(F_password, PyNone) >>,
     miniserver |-> << Member(F_miniserver_user, PyStrVal(<<>>)),
                       Member(F_miniserver_pass, PyStrVal(<<>>)),
                       Member(F_sync_with_miniserver, PyTrue) >>,
     topics     |-> << Member(F_subscriptions, Arr(<<>>)),
                       Member(F_topic_whitelist, PySet({})) >>]

\* global_config.general.base_topic
BaseTopic == <<"m","y","r","e","l","a","y","/">>

TOPIC_CONFIG_SET == BaseTopic \o <<"c","o","n","f","i","g","/","s","e","t">>
TOPIC_CONFIG_ADD == BaseTopic \o <<"c","o","n","f","i","g","/","a","d","d">>
TOPIC_CONFIG_REMOVE == BaseTopic \o <<"c","o","n","f","i","g","/","r","e","m","o","v","e">>
TOPIC_CONFIG_UPDATE == BaseTopic \o <<"c","o","n","f","i","g","/","u","p","d","a","t","e">>
TOPIC_CONFIG_RESTART == BaseTopic \o <<"c","o","n","f","i","g","/","r","e","s","t","a","r","t">>
TOPIC_CONFIG_GET == BaseTopic \o <<"c","o","n","f","i","g","/","g","e","t">>
TOPIC_CONFIG_RESPONSE == BaseTopic \o <<"c","o","n","f","i","g","/","r","e","s","p","o","n","s","e">>
TOPIC_MINISERVER_STARTUP_EVENT == BaseTopic \o <<"m","i","n","i","s","e","r","v","e","r","e","v","e","n","t","/","s","t","a","r","t","u","p">>
TOPIC_START_UI == BaseTopic \o <<"s","t","a","r","t","u","i">>
TOPIC_STOP_UI == BaseTopic \o <<"s","t","o","p","u","i">>
TOPIC_UI_STATUS == BaseTopic \o <<"u","i","/","s","t","a","t","u","s">>

\* connect_and_subscribe_mqtt: all_topics, the subscriptions of the
\* configuration followed by the reserved topics
AllTopics(cfg) ==
    [i \in DOMAIN DictGet(cfg.topics, F_subscriptions).v |->
         DictGet(cfg.topics, F_subscriptions).v[i].v]
        \o << TOPIC_CONFIG_SET, TOPIC_CONFIG_ADD, TOPIC_CONFIG_REMOVE, TOPIC_CONFIG_UPDATE,
              TOPIC_CONFIG_RESTART, TOPIC_CONFIG_GET, TOPIC_MINISERVER_STARTUP_EVENT,
              TOPIC_START_UI, TOPIC_STOP_UI >>

\* the client after connect_and_subscribe_mqtt under the configuration cfg:
\* _topics holds the topics handed to connect; connected, it has subscribed
\* to them
ClientAt(cfg, connected) ==
    IF connected
    THEN [NoClient EXCEPT !.link = TRUE, !.sent = {StatusConnected},
                          !.topics = AllTopics(cfg),
                          !.subscribed = Range(AllTopics(cfg)),
                          !.configured = Range(AllTopics(cfg))]
    ELSE [NoClient EXCEPT !.topics = AllTopics(cfg)]

\* the client of a relay that runs on the defaults
ClientOf(connected) == ClientAt(AppConfig, connected)

\* the sequences that list the elements of a set once each: the orders in
\* which a set may be iterated
Orders(S) ==
    {o \in [1..Cardinality(S) -> S] : \A i, j \in DOMAIN o : o[i] = o[j] => i = j}

\* an update that leaves the field as it is
NewValuesKeepsCurrent(current_value, value, list_mode) == {current_value}

\* update_field / update_config: the values a list- or set-typed field may
\* take under list_mode; any other field takes the value given
NewValues(current_value, value, list_mode) ==
    CASE current_value.t = "set" ->
           LET given == IF value.t = "arr" THEN Range(value.v)
                        ELSE IF value.t = "set" THEN value.v
                        ELSE {value}
           IN  IF list_mode = "set" THEN {PySet(given)}
               ELSE IF list_mode = "add" THEN {PySet(current_value.v \cup given)}
               ELSE {PySet(current_value.v \ given)}
      [] current_value.t = "arr" ->
           LET items == IF value.t = "arr" THEN value.v ELSE <<value>>
           IN  IF list_mode = "set" THEN {Arr(items)}
               ELSE IF list_mode = "add"
               THEN {Arr(o) : o \in Orders(Range(current_value.v \o items))}
               ELSE {Arr(SelectSeq(current_value.v, LAMBDA item : item \notin Range(items)))}
      [] OTHER -> {value}

\* update_config(section, updates, list_mode) up to save_config: the
\* configurations that replace(section_config, **updates) may leave
RECURSIVE UpdateConfig(_, _, _, _)
UpdateConfig(cfg, section, updates, list_mode) ==
    IF updates = <<>> THEN {cfg}
    ELSE UNION { UpdateConfig([cfg EXCEPT ![section] = DictSet(@, Head(updates).k, nv)],
                              section, Tail(updates), list_mode) :
                 nv \in NewValues(DictGet(cfg[section], Head(updates).k),
                                  Head(updates).c, list_mode) }

\* save_config: what a value is written as.  None becomes "", None in a
\* list becomes "", a set is written as an array in some order
Cleaned(value) ==
    CASE value.t = "none" -> {PyStrVal(<<>>)}
      [] value.t = "arr"  ->
           {Arr([i \in DOMAIN value.v |->
                    IF value.v[i].t = "none" THEN PyStrVal(<<>>) ELSE value.v[i]])}
      [] value.t = "set"  -> {Arr(o) : o \in Orders(value.v)}
      [] OTHER            -> {value}

RECURSIVE CleanedSection(_)
CleanedSection(members) ==
    IF members = <<>> THEN {<<>>}
    ELSE {<<Member(Head(members).k, c)>> \o rest :
              c \in Cleaned(Head(members).c), rest \in CleanedSection(Tail(members))}

\* save_config: the documents that may be written for a configuration
SaveConfig(cfg) ==
    {[broker |-> b, miniserver |-> m, topics |-> t] :
         b \in CleanedSection(cfg.broker), m \in CleanedSection(cfg.miniserver),
         t \in CleanedSection(cfg.topics)}

\* _load_config: the defaults when there is no file, the file's values over
\* the defaults of each section otherwise
RECURSIVE SectionFromDict(_, _)
SectionFromDict(defaults, stored) ==
    IF stored = <<>> THEN defaults
    ELSE SectionFromDict(DictSet(defaults, Head(stored).k, Head(stored).c), Tail(stored))

NoFile == [exists |-> FALSE, doc |-> [section \in ConfigSection |-> <<>>]]

File(doc) == [exists |-> TRUE, doc |-> doc]

LoadConfig(file) ==
    IF ~file.exists THEN AppConfig
    ELSE [section \in ConfigSection |->
              SectionFromDict(AppConfig[section], file.doc[section])]

\* the strings of a whitelist, as the processor holds them
WhitelistOf(value) ==
    IF value.t = "arr" THEN {e.v : e \in Range(value.v)} ELSE {e.v : e \in value.v}

\* what sync_miniserver_whitelist comes to: an exception, or the titles
SyncRaises == [raises |-> TRUE, titles |-> Arr(<<>>)]

SyncReturns(titles) == [raises |-> FALSE, titles |-> Arr(titles)]

NoSync == [asked |-> FALSE,
           ran |-> FALSE, before_config |-> PySet({}), before_processor |-> {},
           result |-> SyncRaises, failed |-> FALSE, raised |-> FALSE]

\* no control message was handled since the relay started or synchronised
NoCtl == [ran |-> FALSE, topic |-> <<>>, message |-> <<>>,
          before |-> AppConfig, before_file |-> NoFile,
          updated |-> AppConfig, published |-> <<>>, error |-> "none",
          logged |-> FALSE, raised |-> FALSE, restarted |-> FALSE,
          ui_before |-> "None", ui_action |-> "none"]

(***************************************************************************)
(* mqtt_client.py / main.py: delivery of one message                       *)
(***************************************************************************)
\* payload.decode('utf-8', errors='ignore')
Decode(payload) == SelectSeq(payload, LAMBDA c : c # InvalidByte)

\* Binding of the arguments of a call to the parameters of the callee:
\* positional arguments fill the parameters from the left; TypeError when
\* there are too many, when a keyword names no parameter, or when a keyword
\* names a parameter that a positional argument has filled.
CallRaisesTypeError(params, npositional, keywords) ==
    \/ npositional > Len(params)
    \/ \E kw \in keywords : kw \notin Range(params)
    \/ \E i \in 1..npositional : i <= Len(params) /\ params[i] \in keywords

\* HttpMiniserverHandler.send_to_miniserver(self, data, mqtt_publish_callback=None)
SendToMiniserverParams == <<"data", "mqtt_publish_callback">>

\* the call in received_mqtt_message:
\*   http_miniserver_handler.send_to_miniserver(topic, value, mqtt_publish_callback=...)
DispatchCallRaises ==
    CallRaisesTypeError(SendToMiniserverParams, 2, {"mqtt_publish_callback"})

\* The loop over processed_data: a pair whose value is None is skipped, for
\* any other pair the call is evaluated and a task created from it.  An
\* exception leaves the loop and is logged by the handler.
RECURSIVE DispatchLoop(_, _)
DispatchLoop(pairs, created) ==
    IF pairs = <<>> THEN [error |-> "none", created |-> created]
    ELSE IF Head(pairs).value = PyNone THEN DispatchLoop(Tail(pairs), created)
    ELSE IF DispatchCallRaises THEN [error |-> "TypeError", created |-> created]
    ELSE DispatchLoop(Tail(pairs), Append(created, Head(pairs)))

MaxFailAt == 2

\* msgVars describe the operation that ran last when it was the delivery of
\* a message; any other operation leaves them blank
NoMessage ==
    /\ handled' = FALSE
    /\ in_topic' = <<>>
    /\ in_payload' = <<>>
    /\ processed_tuples' = <<>>
    /\ final_data' = <<>>
    /\ published' = <<>>
    /\ raised' = FALSE
    /\ dispatched' = <<>>
    /\ logged' = "none"
    /\ sync_call' = NoSync
    /\ ctl' = NoCtl
    /\ UNCHANGED <<egressVars, config, config_file, uiVars, headless, fn_call>>

\* the same for an operation of the control plane
NoCtlMessage ==
    /\ handled' = FALSE
    /\ in_topic' = <<>>
    /\ in_payload' = <<>>
    /\ processed_tuples' = <<>>
    /\ final_data' = <<>>
    /\ published' = <<>>
    /\ raised' = FALSE
    /\ dispatched' = <<>>
    /\ logged' = "none"

\* MQTTClient._on_message -> MQTTRelay.received_mqtt_message, a topic that
\* is not reserved: process_data, then the dispatch loop.  failAt numbers the
\* transport publish that raises (0: none); one can raise only when the
\* echoes reach the transport.
\* sync_call keeps the last synchronisation, so that a message can be told
\* to have been processed after it.
OnMessage(topic, payload, failAt) ==
    /\ failAt > 0 => publish_processed_topics /\ conn
    /\ \E r \in {ProcessData(topic, Decode(payload), Proc, expand_json,
                             publish_processed_topics, publish_processed_topics,
                             caches, conn, failAt)} :
       \E d \in {IF r.raised THEN [error |-> "PublishError", created |-> <<>>]
                 ELSE DispatchLoop(r.final, <<>>)} :
           /\ handled' = TRUE
           /\ in_topic' = topic
           /\ in_payload' = payload
           /\ processed_tuples' = r.tuples
           /\ final_data' = r.final
           /\ published' = r.published
           /\ raised' = r.raised
           /\ dispatched' = d.created
           /\ logged' = d.error
           /\ caches' = r.caches
           /\ ctl' = NoCtl
           /\ UNCHANGED <<procVars, clientVars, egressVars, config, config_file, sync_call,
                          uiVars, headless, fn_call>>

\* MQTTClient._on_connect / _on_disconnect
\* a client that subscribes only when the broker holds no session for it
SubscribesOnNewSession(session_present) == ~session_present

\* _on_connect subscribes whatever session_present says
SubscribesOn(session_present) == TRUE

\* configured: the topics the configuration asks for at this moment
OnConnect ==
    /\ conn' = TRUE
    /\ \E session_present \in BOOLEAN :
           client' = [client EXCEPT
                        !.link = TRUE,
                        !.sent = {StatusConnected},
                        !.subscribed = IF SubscribesOn(session_present)
                                       THEN Range(client.topics) ELSE {},
                        !.configured = Range(AllTopics(config))]
    /\ NoMessage
    /\ UNCHANGED <<procVars, caches>>

OnDisconnect ==
    /\ conn' = FALSE
    /\ client' = [client EXCEPT !.link = FALSE, !.sent = {}, !.subscribed = {}]
    /\ NoMessage
    /\ UNCHANGED <<procVars, caches>>

(***************************************************************************)
(* process_data as a coroutine: it runs from one await at which it is      *)
(* suspended to the next, and the other handlers of the event loop, the    *)
(* updates of the processor among them, run in between.  The awaits are    *)
(* those of the echo loop (line 174); fn_call holds the call in progress:  *)
(* where it stands, the processor's filter state when it started, the      *)
(* pairs of the expansion, the index of the pending echo or of the next    *)
(* pair to judge, per judged pair the filter state it was judged against,  *)
(* and the pairs emitted so far.                                           *)
(***************************************************************************)
\* a final filtering that is suspended after every pair
GateYieldsEachPair(i) == TRUE

\* the loop of the final filtering (lines 178-199) holds no await
GateYields(i) == FALSE

\* the final filtering from pair i on, up to its end or to its suspension
RECURSIVE GateRun(_, _, _, _, _, _)
GateRun(tuples, i, proc, memo, judged, final) ==
    IF i > Len(tuples)
    THEN [pc |-> "done", k |-> i, judged |-> judged, final |-> final, caches |-> memo]
    ELSE LET t == tuples[i]
             w == IF proc.wl # {}
                  THEN IsInWhitelistCall(memo, proc.wl, t.topic)
                  ELSE [res |-> TRUE, caches |-> memo]
             drops == GateDrops(proc, w.res, t.topic)
             b == ConvertBooleanCall(w.caches, t.value)
             memo2 == IF drops THEN w.caches ELSE b.caches
             final2 == IF drops THEN final ELSE Append(final, Pair(t.topic, b.res))
             judged2 == Append(judged, [topic |-> t.topic, proc |-> proc])
         IN  IF i < Len(tuples) /\ GateYields(i)
             THEN [pc |-> "gate", k |-> i + 1, judged |-> judged2, final |-> final2,
                   caches |-> memo2]
             ELSE GateRun(tuples, i + 1, proc, memo2, judged2, final2)

ProcessCall(topic, message, tuples, pc, k, judged, final) ==
    [f |-> "process_data", topic |-> topic, message |-> message, start |-> Proc,
     tuples |-> tuples, pc |-> pc, k |-> k, judged |-> judged, final |-> final]

\* process_data is called and runs to its first await, or to its end
ProcessDataStart(topic, message) ==
    /\ fn_call = NoCall
    /\ IF FirstPassDrops(Proc, topic)
       THEN /\ fn_call' = ProcessCall(topic, message, <<>>, "done", 0, <<>>, <<>>)
            /\ caches' = caches
       ELSE LET tuples == Expand(expand_json, topic, message)
            IN  IF publish_processed_topics /\ tuples # <<>>
                THEN /\ fn_call' = ProcessCall(topic, message, tuples, "echo", 1, <<>>, <<>>)
                     /\ caches' = NormalizeCall(caches, tuples[1].topic).caches
                ELSE \E g \in {GateRun(tuples, 1, Proc, caches, <<>>, <<>>)} :
                         /\ fn_call' = ProcessCall(topic, message, tuples, g.pc, g.k,
                                                   g.judged, g.final)
                         /\ caches' = g.caches
    /\ UNCHANGED <<compiled_subscription_filter, topic_whitelist, do_not_forward_patterns,
                   cache_size, expand_json, publish_processed_topics, clientVars, msgVars,
                   egressVars, ctlVars>>

\* the await returns: the next echo, or the final filtering
ProcessDataResume ==
    /\ fn_call.f = "process_data"
    /\ fn_call.pc \in {"echo", "gate"}
    /\ IF fn_call.pc = "echo" /\ fn_call.k < Len(fn_call.tuples)
       THEN /\ fn_call' = [fn_call EXCEPT !.k = @ + 1]
            /\ caches' = NormalizeCall(caches, fn_call.tuples[fn_call.k + 1].topic).caches
       ELSE \E g \in {IF fn_call.pc = "echo"
                      THEN GateRun(fn_call.tuples, 1, Proc, caches, <<>>, <<>>)
                      ELSE GateRun(fn_call.tuples, fn_call.k, Proc, caches,
                                   fn_call.judged, fn_call.final)} :
                /\ fn_call' = [fn_call EXCEPT !.pc = g.pc, !.k = g.k, !.judged = g.judged,
                                              !.final = g.final]
                /\ caches' = g.caches
    /\ UNCHANGED <<compiled_subscription_filter, topic_whitelist, do_not_forward_patterns,
                   cache_size, expand_json, publish_processed_topics, clientVars, msgVars,
                   egressVars, ctlVars>>

\* process_data has returned final_data
ProcessDataReturn ==
    /\ fn_call.f = "process_data"
    /\ fn_call.pc = "done"
    /\ fn_call' = NoCall
    /\ UNCHANGED <<pipelineVars, egressVars, ctlVars>>

(***************************************************************************)
(* mqtt_client.py: publish, connect and _on_message                        *)
(***************************************************************************)
MaxPublishes == 2
MaxMessages == 2
MaxFailures == 2

\* self._max_reconnect_delay
max_reconnect_delay == 15

\* a publish that does not look at _conn
PublishOutcomeUnguarded(connected, transport_raises) ==
    [handed |-> TRUE, warned |-> FALSE, raised |-> transport_raises]

\* MQTTClient.publish: the warning and the return while _conn is not set;
\* otherwise the call of the transport, whose exception is raised again
PublishOutcome(connected, transport_raises) ==
    IF ~connected
    THEN [handed |-> FALSE, warned |-> TRUE, raised |-> FALSE]
    ELSE [handed |-> TRUE, warned |-> FALSE, raised |-> transport_raises]

\* await mqtt_client.publish(topic, message, retain)
Publish(transport_raises) ==
    /\ client.calls < MaxPublishes
    /\ transport_raises => conn
    /\ LET id == client.calls + 1
           out == PublishOutcome(conn, transport_raises)
       IN  client' = [client EXCEPT
                        !.calls = id,
                        !.pub = [ran |-> TRUE, id |-> id, link |-> client.link,
                                 handed |-> out.handed, warned |-> out.warned,
                                 raised |-> out.raised],
                        !.sent = IF out.handed /\ ~out.raised
                                 THEN @ \cup {Handed(id)} ELSE @,
                        !.dropped = IF out.warned THEN @ \cup {id} ELSE @]
    /\ UNCHANGED <<procVars, caches, conn, msgVars, egressVars, ctlVars, fn_call>>

\* the counters of the connect loop stop counting at their bound
CountUp(n, step, bound) == IF n + step <= bound THEN n + step ELSE n

\* MQTTClient.connect up to the loop: the callback and the topics are kept
\* and _conn is cleared
Connect ==
    /\ client.phase \in {"idle", "returned"}
    /\ conn' = FALSE
    /\ client' = [client EXCEPT !.phase = "attempting", !.attempts = 0, !.failures = 0,
                                !.slept = 0, !.accepted = FALSE,
                                !.topics = AllTopics(config)]
    /\ UNCHANGED <<procVars, caches, msgVars, egressVars, ctlVars, fn_call>>

\* a connect that returns whatever the attempt did
ConnectOutcomeGivesUp(accepted) == "returned"

\* the try of the loop: return after client.connect returned, the except
\* clause and the sleep after it raised
ConnectOutcome(accepted) == IF accepted THEN "returned" ELSE "sleeping"

\* await self.client.connect(...) ends: the broker accepted, or the attempt
\* raised
ConnectAttempt(accepted) ==
    /\ client.phase = "attempting"
    /\ client' = [client EXCEPT
                    !.phase = ConnectOutcome(accepted),
                    !.attempts = CountUp(@, 1, MaxFailures + 1),
                    !.failures = IF accepted THEN @ ELSE CountUp(@, 1, MaxFailures),
                    !.accepted = accepted]
    /\ UNCHANGED <<procVars, caches, conn, msgVars, egressVars, ctlVars, fn_call>>

\* await asyncio.sleep(self._max_reconnect_delay) ends: the next attempt
ConnectSleepDone ==
    /\ client.phase = "sleeping"
    /\ client' = [client EXCEPT
                    !.phase = "attempting",
                    !.slept = CountUp(@, max_reconnect_delay,
                                      max_reconnect_delay * MaxFailures)]
    /\ UNCHANGED <<procVars, caches, conn, msgVars, egressVars, ctlVars, fn_call>>

\* an _on_message that lets the exception of the callback through
OnMessageResultUnguarded(outcome) ==
    IF outcome = "raises" THEN [ret |-> "none", escaped |-> TRUE]
    ELSE [ret |-> "SUCCESS", escaped |-> FALSE]

\* MQTTClient._on_message: what it returns when the callback completed and
\* when the callback raised an Exception
OnMessageResult(outcome) ==
    IF outcome = "raises" THEN [ret |-> "UNSPECIFIED_ERROR", escaped |-> FALSE]
    ELSE [ret |-> "SUCCESS", escaped |-> FALSE]

\* the transport calls _on_message with a message; outcome: what the
\* callback does with it
ClientOnMessage(payload, outcome) ==
    /\ client.arrived < MaxMessages
    /\ client' = [client EXCEPT
                    !.arrived = @ + 1,
                    !.received = payload,
                    !.delivered = Decode(payload),
                    !.outcomes = Append(@, outcome),
                    !.rets = Append(@, OnMessageResult(outcome).ret),
                    !.escaped = @ \/ OnMessageResult(outcome).escaped]
    /\ UNCHANGED <<procVars, caches, conn, msgVars, egressVars, ctlVars, fn_call>>

(***************************************************************************)
(* MiniserverDataProcessor: the update methods                             *)
(***************************************************************************)
UpdateSubscriptionFilters(filters) ==
    /\ compiled_subscription_filter' = CompileFilters(filters)
    /\ NoMessage
    /\ UNCHANGED <<topic_whitelist, do_not_forward_patterns, cache_size, expand_json,
                   publish_processed_topics, caches, clientVars>>

UpdateTopicWhitelist(whitelist) ==
    /\ topic_whitelist' = whitelist
    /\ caches' = [caches EXCEPT !.wl = <<>>]
    /\ NoMessage
    /\ UNCHANGED <<compiled_subscription_filter, do_not_forward_patterns, cache_size,
                   expand_json, publish_processed_topics, clientVars>>

UpdateDoNotForward(filters) ==
    /\ do_not_forward_patterns' = CompileFilters(filters)
    /\ NoMessage
    /\ UNCHANGED <<compiled_subscription_filter, topic_whitelist, cache_size, expand_json,
                   publish_processed_topics, caches, clientVars>>

(***************************************************************************)
(* miniserver_sync.py: load_miniserver_config.  The archive member          *)
(* sps0.LoxCC is a header (magic, compressed size, uncompressed size,      *)
(* checksum, each four bytes, least significant first) and a compressed    *)
(* body.  Bytes are numbers 0..255; a 32-bit word is the tuple of its four *)
(* bytes, least significant first, or the tuple of its 32 bits.            *)
(***************************************************************************)
\* the bits of a number below 2^n, least significant first
RECURSIVE BitsOf(_, _)
BitsOf(x, n) == IF n = 0 THEN <<>> ELSE <<x % 2>> \o BitsOf(x \div 2, n - 1)

\* the number a tuple of bits stands for
RECURSIVE ValueOf(_)
ValueOf(bits) == IF bits = <<>> THEN 0 ELSE bits[1] + 2 * ValueOf(Tail(bits))

XorBits(a, b) == SubSeq([i \in DOMAIN a |-> (a[i] + b[i]) % 2], 1, Len(a))

\* 0xEDB88320, the reflected CRC-32 polynomial zlib.crc32 divides by,
\* as hexadecimal digits and as bits
CrcPolyHex == <<14, 13, 11, 8, 8, 3, 2, 0>>

CrcPoly ==
    [i \in 1..32 |-> BitsOf(CrcPolyHex[8 - ((i - 1) \div 4)], 4)[((i - 1) % 4) + 1]]

\* one division step: shift right, subtract the polynomial when a one fell out
CrcShift(crc) ==
    LET shifted == Tail(crc) \o <<0>>
    IN  IF crc[1] = 1 THEN XorBits(shifted, CrcPoly) ELSE shifted

\* (the comparisons with <<>> have the register computed before the next step)
RECURSIVE CrcShifts(_, _)
CrcShifts(crc, n) ==
    IF crc = <<>> \/ n = 0 THEN crc ELSE CrcShifts(CrcShift(crc), n - 1)

RECURSIVE CrcBytes(_, _)
CrcBytes(crc, bytes) ==
    IF crc = <<>> \/ bytes = <<>> THEN crc
    ELSE CrcBytes(CrcShifts(XorBits(crc, BitsOf(bytes[1], 8) \o [i \in 1..24 |-> 0]), 8),
                  Tail(bytes))

\* zlib.crc32(bytes), as four bytes, least significant first
Crc32(bytes) ==
    LET crc == XorBits(CrcBytes([i \in 1..32 |-> 1], bytes), [i \in 1..32 |-> 1])
    IN  [b \in 1..4 |-> ValueOf(SubSeq(crc, 8 * b - 7, 8 * b))]

\* 0xaabbccee
LoxCCMagic == <<238, 204, 187, 170>>

\* Python's data[a:b] for 0 <= a: the slice stops at the end of the data
PySlice(data, a, b) == Slice(data, a + 1, IF b < Len(data) THEN b ELSE Len(data))

\* the run-length bytes after a nibble of 15: each is added, the last is the
\* first that is not 255; a read past the end raises
RECURSIVE ReadLength(_, _, _)
ReadLength(data, index, n) ==
    IF index >= Len(data) THEN [ok |-> FALSE, index |-> index, n |-> n]
    ELSE IF data[index + 1] = 255 THEN ReadLength(data, index + 1, n + 255)
    ELSE [ok |-> TRUE, index |-> index + 1, n |-> n + data[index + 1]]

\* resultStr[-bytesBack:] for 1, resultStr[-bytesBack:-bytesBack+1] otherwise
BackByte(resultStr, bytesBack) ==
    IF bytesBack = 0 THEN PySlice(resultStr, 0, 1)
    ELSE IF bytesBack <= Len(resultStr)
         THEN <<resultStr[Len(resultStr) - bytesBack + 1]>>
         ELSE <<>>

\* while bytesBackCopied > 0: one byte from bytesBack bytes back is appended
RECURSIVE CopyBack(_, _, _)
CopyBack(resultStr, bytesBack, bytesBackCopied) ==
    IF bytesBackCopied = 0 THEN resultStr
    ELSE CopyBack(resultStr \o BackByte(resultStr, bytesBack), bytesBack,
                  bytesBackCopied - 1)

\* the decompression loop from position index on: the bytes, or an exception
RECURSIVE Decompress(_, _, _)
Decompress(data, index, resultStr) ==
    IF index >= Len(data) THEN [ok |-> TRUE, bytes |-> resultStr]
    ELSE
    LET byte == data[index + 1] % 16
        lit == IF data[index + 1] \div 16 = 15
               THEN ReadLength(data, index + 1, 15)
               ELSE [ok |-> TRUE, index |-> index + 1, n |-> data[index + 1] \div 16]
        copied == resultStr \o PySlice(data, lit.index, lit.index + lit.n)
        at == lit.index + lit.n
        back == IF byte = 15
                THEN ReadLength(data, at + 2, 4 + byte)
                ELSE [ok |-> TRUE, index |-> at + 2, n |-> 4 + byte]
    IN  IF ~lit.ok THEN [ok |-> FALSE, bytes |-> <<>>]
        ELSE IF at >= Len(data) THEN [ok |-> TRUE, bytes |-> copied]
        ELSE IF at + 2 > Len(data) \/ ~back.ok THEN [ok |-> FALSE, bytes |-> <<>>]
        ELSE Decompress(data, back.index,
                        CopyBack(copied, data[at + 1] + 256 * data[at + 2], back.n))

\* data = f.read(compressedSize), decompressed
Decompressed(archive) ==
    Decompress(PySlice(archive.data, 0, archive.compressedSize), 0, <<>>)

\* a loader that trusts the header
LoadMiniserverConfigUnverified(archive) == Decompressed(archive)

\* load_miniserver_config on the archive member: the decompressed bytes, or
\* an exception
LoadMiniserverConfig(archive) ==
    LET out == Decompressed(archive)
    IN  IF archive.header # LoxCCMagic THEN [ok |-> FALSE, bytes |-> <<>>]
        ELSE IF ~out.ok THEN out
        ELSE IF archive.checksum # Crc32(out.bytes) THEN [ok |-> FALSE, bytes |-> <<>>]
        ELSE IF Len(out.bytes) # archive.uncompressedSize
             THEN [ok |-> FALSE, bytes |-> <<>>]
        ELSE out

\* the bodies: the literal "A" and four copies of it; the literals "AB";
\* a body that ends inside a back reference
ArchiveBodies == { <<16, 65, 1, 0>>, <<32, 65, 66>>, <<16, 65, 1>> }

\* zlib.crc32 of "AB" and of "AAAAA"
ArchiveChecksums == { <<7, 76, 105, 48>>, <<9, 81, 248, 25>> }

\* the magic of the format, and the magic of a zip file
ArchiveHeaders == { LoxCCMagic, <<80, 75, 3, 4>> }

Archives ==
    { [header |-> h, compressedSize |-> Len(d), uncompressedSize |-> n,
       checksum |-> c, data |-> d] :
        h \in ArchiveHeaders, d \in ArchiveBodies, n \in {2, 5}, c \in ArchiveChecksums }

\* load_miniserver_config on each of the archives
Loaded == [archive \in Archives |-> LoadMiniserverConfig(archive)]

\* sync_miniserver_whitelist: the exception of the loader is raised again;
\* inputs is what extract_inputs makes of the decompressed document, an
\* exception or the titles
SyncMiniserverWhitelist(archive, inputs) ==
    IF Loaded[archive].ok THEN inputs ELSE SyncRaises

(***************************************************************************)
(* main.py: MQTTRelay.handle_miniserver_sync.  result is what               *)
(* sync_miniserver_whitelist came to: an exception, or the list of titles; *)
(* save1 and save2 tell whether the save_config of the first and of the    *)
(* second update_config succeeds (the file may not be writable).           *)
(***************************************************************************)
\* a replacement of the whitelist that keeps the membership cache
KeepsCache(memo) == memo

\* self.is_in_whitelist.cache_clear()
CacheClear(memo) == [memo EXCEPT !.wl = <<>>]

\* except Exception: the configuration takes the initial whitelist again
Restore(cfg, initial_whitelist) ==
    UpdateConfig(cfg, "topics", <<Member(F_topic_whitelist, initial_whitelist)>>, "set")

\* a relay that synchronises whatever the configuration says
SyncEnabledAlways(cfg) == TRUE

\* global_config.miniserver.sync_with_miniserver
SyncEnabled(cfg) == ~PyFalsy(DictGet(cfg.miniserver, F_sync_with_miniserver))

\* the synchronisation was decided against: nothing is attempted
SyncSkipped ==
    [NoSync EXCEPT !.asked = TRUE,
                   !.before_config = DictGet(config.topics, F_topic_whitelist),
                   !.before_processor = topic_whitelist]

MiniserverSync(result, save1, save2) ==
    /\ LET initial_whitelist == DictGet(config.topics, F_topic_whitelist)
           call == [asked |-> TRUE,
                    ran |-> TRUE, before_config |-> initial_whitelist,
                    before_processor |-> topic_whitelist, result |-> result,
                    failed |-> FALSE, raised |-> FALSE]
           tried == IF result.raises THEN {config}
                    ELSE UpdateConfig(config, "topics",
                                      <<Member(F_topic_whitelist, result.titles)>>, "set")
       IN  \E cfg1 \in tried :
               IF ~result.raises /\ save1
               THEN /\ config' = cfg1
                    /\ config_file' \in {File(doc) : doc \in SaveConfig(cfg1)}
                    /\ topic_whitelist' = WhitelistOf(result.titles)
                    /\ caches' = CacheClear(caches)
                    /\ sync_call' = call
               ELSE \E cfg2 \in Restore(cfg1, initial_whitelist) :
                        /\ config' = cfg2
                        /\ IF save2
                           THEN /\ config_file' \in {File(doc) : doc \in SaveConfig(cfg2)}
                                /\ topic_whitelist' = WhitelistOf(initial_whitelist)
                                /\ caches' = CacheClear(caches)
                                /\ sync_call' = [call EXCEPT !.failed = TRUE]
                           ELSE /\ sync_call' = [call EXCEPT !.failed = TRUE, !.raised = TRUE]
                                /\ UNCHANGED <<config_file, topic_whitelist, caches>>

\* main: await self.handle_miniserver_sync()
\* handle_miniserver_sync but for the record of the call that led to it
RunMiniserverSync(result, save1, save2) ==
    /\ IF SyncEnabled(config)
       THEN MiniserverSync(result, save1, save2)
       ELSE /\ sync_call' = SyncSkipped
            /\ UNCHANGED <<config, config_file, topic_whitelist, caches>>
    /\ ctl' = NoCtl
    /\ NoCtlMessage
    /\ UNCHANGED <<compiled_subscription_filter, do_not_forward_patterns, cache_size,
                   expand_json, publish_processed_topics, clientVars, egressVars,
                   uiVars, headless>>

HandleMiniserverSync(result, save1, save2) ==
    /\ RunMiniserverSync(result, save1, save2)
    /\ UNCHANGED fn_call

\* handle_miniserver_sync when the Miniserver serves archive
SyncFromArchive(archive, inputs, save1, save2) ==
    /\ RunMiniserverSync(SyncMiniserverWhitelist(archive, inputs), save1, save2)
    /\ fn_call' = [NoCall EXCEPT !.f = "load_miniserver_config", !.arg = archive,
                                  !.res = Loaded[archive].ok]

\* the control plane before the first operation
CtlIdle ==
    /\ config = AppConfig
    /\ config_file = NoFile
    /\ sync_call = NoSync
    /\ ctl = NoCtl
    /\ ui_process = "None"
    /\ ui_live = 0
    /\ headless = FALSE
    /\ fn_call = NoCall

(***************************************************************************)
(* main.py: the reserved topics and received_mqtt_message                  *)
(***************************************************************************)
\* a match statement that has no case for stopui
RouteWithoutStopUi(topic_str) ==
    IF topic_str = TOPIC_START_UI THEN "startui"
    ELSE IF topic_str = TOPIC_MINISERVER_STARTUP_EVENT THEN "startup"
    ELSE IF topic_str = TOPIC_CONFIG_GET THEN "get"
    ELSE IF topic_str \in {TOPIC_CONFIG_SET, TOPIC_CONFIG_ADD, TOPIC_CONFIG_REMOVE}
    THEN "change"
    ELSE IF topic_str \in {TOPIC_CONFIG_UPDATE, TOPIC_CONFIG_RESTART} THEN "restart"
    ELSE "pipeline"

\* match topic_str: the case that takes the message
Route(topic_str) ==
    IF topic_str = TOPIC_START_UI THEN "startui"
    ELSE IF topic_str = TOPIC_STOP_UI THEN "stopui"
    ELSE IF topic_str = TOPIC_MINISERVER_STARTUP_EVENT THEN "startup"
    ELSE IF topic_str = TOPIC_CONFIG_GET THEN "get"
    ELSE IF topic_str \in {TOPIC_CONFIG_SET, TOPIC_CONFIG_ADD, TOPIC_CONFIG_REMOVE}
    THEN "change"
    ELSE IF topic_str \in {TOPIC_CONFIG_UPDATE, TOPIC_CONFIG_RESTART} THEN "restart"
    ELSE "pipeline"

\* topic_str.split('/')[-1]
RECURSIVE LastSegment(_)
LastSegment(topic_str) ==
    IF "/" \notin Range(topic_str) THEN topic_str
    ELSE LastSegment(Tail(topic_str))

\* the list_mode that a segment names
ListMode(segment) ==
    IF segment = <<"s","e","t">> THEN "set"
    ELSE IF segment = <<"a","d","d">> THEN "add"
    ELSE "remove"

\* orjson.dumps: a set is no JSON type (TypeError)
RECURSIVE Serializable(_)
Serializable(x) ==
    CASE x.t = "set" -> FALSE
      [] x.t = "arr" -> \A i \in DOMAIN x.v : Serializable(x.v[i])
      [] x.t = "obj" -> \A i \in DOMAIN x.v : Serializable(x.v[i].c)
      [] OTHER       -> TRUE

\* orjson.dumps writes no whitespace
RECURSIVE DumpsText(_), DumpsMembers(_), DumpsElements(_)
DumpsText(x) ==
    CASE x.t = "obj"  -> <<"{">> \o DumpsMembers(x.v) \o <<"}">>
      [] x.t = "arr"  -> <<"[">> \o DumpsElements(x.v) \o <<"]">>
      [] x.t = "str"  -> <<Quote>> \o x.v \o <<Quote>>
      [] x.t = "bool" -> IF x.v = PyTrue.v THEN <<"t","r","u","e">>
                         ELSE <<"f","a","l","s","e">>
      [] x.t = "none" -> <<"n","u","l","l">>
      [] OTHER        -> x.v

DumpsMembers(ms) ==
    IF ms = <<>> THEN <<>>
    ELSE <<Quote>> \o Head(ms).k \o <<Quote, ":">> \o DumpsText(Head(ms).c)
         \o (IF Tail(ms) = <<>> THEN <<>> ELSE <<",">> \o DumpsMembers(Tail(ms)))

DumpsElements(es) ==
    IF es = <<>> THEN <<>>
    ELSE DumpsText(Head(es))
         \o (IF Tail(es) = <<>> THEN <<>> ELSE <<",">> \o DumpsElements(Tail(es)))

Dumps(x) ==
    IF Serializable(x) THEN [ok |-> TRUE, text |-> DumpsText(x)]
    ELSE [ok |-> FALSE, text |-> <<>>]

S_broker == <<"b","r","o","k","e","r">>
S_miniserver == <<"m","i","n","i","s","e","r","v","e","r">>
S_topics == <<"t","o","p","i","c","s">>

\* AppConfig.to_dict(): the sections in the order of the fields
ToDict(cfg) ==
    Obj(<< Member(S_broker, Obj(cfg.broker)),
           Member(S_miniserver, Obj(cfg.miniserver)),
           Member(S_topics, Obj(cfg.topics)) >>)

\* a projection that leaves the broker user in
GetSafeConfigKeepsUser(cfg) ==
    [cfg EXCEPT !.broker = DictPop(@, F_password),
                !.miniserver = DictPop(DictPop(@, F_miniserver_user), F_miniserver_pass)]

\* get_safe_config: the configuration without the credentials
GetSafeConfig(cfg) ==
    [cfg EXCEPT !.broker = DictPop(DictPop(@, F_user), F_password),
                !.miniserver = DictPop(DictPop(@, F_miniserver_user), F_miniserver_pass)]

\* field_mappings: the section of a field
KnownField(field_name) == \E section \in ConfigSection : DictHas(AppConfig[section], field_name)

SectionOf(field_name) ==
    CHOOSE section \in ConfigSection : DictHas(AppConfig[section], field_name)

\* an update_field that knows no list modes
UpdateFieldReplaces(cfg, field_name, value, list_mode) ==
    {[cfg EXCEPT ![SectionOf(field_name)] = DictSet(@, field_name, value)]}

\* update_field up to save_config: the configurations that setattr may leave
UpdateField(cfg, field_name, value, list_mode) ==
    {[cfg EXCEPT ![SectionOf(field_name)] = DictSet(@, field_name, nv)] :
         nv \in NewValues(DictGet(cfg[SectionOf(field_name)], field_name), value, list_mode)}

\* update_fields(updates, list_mode): one update_field per item, each with
\* its save_config; failAt numbers the save that fails (0: none), saves
\* counts the ones done.  Result: the configuration, the file, and the
\* exception that ended the loop.
RECURSIVE UpdateFields(_, _, _, _, _, _)
UpdateFields(cfg, file, updates, list_mode, failAt, saves) ==
    IF updates = <<>> THEN {[config |-> cfg, file |-> file, error |-> "none"]}
    ELSE IF ~KnownField(Head(updates).k)
    THEN {[config |-> cfg, file |-> file, error |-> "ValueError"]}
    ELSE UNION {
           IF saves + 1 = failAt
           THEN {[config |-> cfg2, file |-> file, error |-> "OSError"]}
           ELSE UNION {UpdateFields(cfg2, File(doc), Tail(updates), list_mode,
                                    failAt, saves + 1) : doc \in SaveConfig(cfg2)} :
           cfg2 \in UpdateField(cfg, Head(updates).k, Head(updates).c, list_mode)}

\* MQTTClient.publish from the control plane: dropped while not connected
PublishCall(sub, name, body) ==
    IF conn THEN << Publication(sub, name, body) >> ELSE <<>>

ControlOp(topic, payload) ==
    [ran |-> TRUE, topic |-> topic, message |-> Decode(payload),
     before |-> config, before_file |-> config_file,
     updated |-> config, published |-> <<>>, error |-> "none",
     logged |-> FALSE, raised |-> FALSE, restarted |-> FALSE,
     ui_before |-> ui_process, ui_action |-> "none"]

UiStarted == <<"U","I"," ","s","t","a","r","t","e","d"," ","s","u","c","c","e","s","s","f","u","l","l","y">>
UiStartFailed == <<"F","a","i","l","e","d"," ","t","o"," ","s","t","a","r","t"," ","U","I",":"," ">>
UiAlreadyRunning == <<"U","I"," ","i","s"," ","a","l","r","e","a","d","y"," ","r","u","n","n","i","n","g">>
UiStopped == <<"U","I"," ","s","t","o","p","p","e","d"," ","s","u","c","c","e","s","s","f","u","l","l","y">>
UiKilled == <<"U","I"," ","p","r","o","c","e","s","s"," ","k","i","l","l","e","d"," ","a","f","t","e","r"," ","t","i","m","e","o","u","t">>
UiStopFailed == <<"E","r","r","o","r"," ","s","t","o","p","p","i","n","g"," ","U","I",":"," ">>
UiNotRunning == <<"U","I"," ","i","s"," ","n","o","t"," ","r","u","n","n","i","n","g">>

UiStatus(body) == PublishCall("ui/", <<"s","t","a","t","u","s">>, body)

\* restart_relay_incl_ui: the UI is terminated and os.execv replaces the
\* program, which starts again from the file: Config(), MQTTRelay(), a
\* client that is not connected yet
Restart(file) ==
    /\ config' = LoadConfig(file)
    /\ config_file' = file
    /\ topic_whitelist' = WhitelistOf(DictGet(config'.topics, F_topic_whitelist))
    /\ caches' = EmptyCaches
    /\ conn' = FALSE
    /\ client' = ClientAt(config', FALSE)
    /\ ui_process' = "None"
    /\ ui_live' = 0

\* a start_ui that spawns whatever it holds
NeedsSpawnAlways(process) == TRUE

\* self.ui_process is None or self.ui_process.poll() is not None
NeedsSpawn(process) == process \in {"None", "exited"}

\* case TOPIC.START_UI: start_ui().  spawned: Popen succeeds
OnStartUi(topic, payload, spawned) ==
    /\ Route(topic) = "startui"
    /\ IF headless
       THEN /\ UNCHANGED uiVars
            /\ ctl' = ControlOp(topic, payload)
       ELSE IF NeedsSpawn(ui_process)
       THEN IF spawned
            THEN /\ ui_process' = "alive"
                 /\ ui_live' = ui_live + 1
                 /\ ctl' = [ControlOp(topic, payload) EXCEPT !.published = UiStatus(UiStarted),
                                                    !.ui_action = "spawned"]
            ELSE /\ UNCHANGED uiVars
                 /\ ctl' = [ControlOp(topic, payload) EXCEPT !.published = UiStatus(UiStartFailed),
                                                    !.error = "Exception", !.logged = TRUE]
       ELSE /\ UNCHANGED uiVars
            /\ ctl' = [ControlOp(topic, payload) EXCEPT !.published = UiStatus(UiAlreadyRunning)]
    /\ sync_call' = NoSync
    /\ NoCtlMessage
    /\ UNCHANGED <<procVars, caches, clientVars, egressVars, config, config_file,
                   headless, fn_call>>

\* the live processes after the held one was terminated or killed
LiveAfterStop == IF ui_process = "alive" THEN ui_live - 1 ELSE ui_live

\* case TOPIC.STOP_UI: stop_ui().  outcome: what terminate() and wait(5)
\* come to
OnStopUi(topic, payload, outcome) ==
    /\ Route(topic) = "stopui"
    /\ IF ui_process # "None"
       THEN CASE outcome = "exits" ->
                   /\ ui_process' = "None"
                   /\ ui_live' = LiveAfterStop
                   /\ ctl' = [ControlOp(topic, payload) EXCEPT !.published = UiStatus(UiStopped),
                                                      !.ui_action = "terminated"]
              [] outcome = "timeout" ->
                   /\ ui_process' = "None"
                   /\ ui_live' = LiveAfterStop
                   /\ ctl' = [ControlOp(topic, payload) EXCEPT !.published = UiStatus(UiKilled),
                                                      !.ui_action = "killed",
                                                      !.error = "TimeoutExpired",
                                                      !.logged = TRUE]
              [] OTHER ->
                   /\ UNCHANGED uiVars
                   /\ ctl' = [ControlOp(topic, payload) EXCEPT !.published = UiStatus(UiStopFailed),
                                                      !.error = "Exception",
                                                      !.logged = TRUE]
       ELSE /\ UNCHANGED uiVars
            /\ ctl' = [ControlOp(topic, payload) EXCEPT !.published = UiStatus(UiNotRunning)]
    /\ sync_call' = NoSync
    /\ NoCtlMessage
    /\ UNCHANGED <<procVars, caches, clientVars, egressVars, config, config_file,
                   headless, fn_call>>

\* case TOPIC.MINISERVER_STARTUP_EVENT
OnStartupEvent(topic, payload, result, save1, save2) ==
    /\ Route(topic) = "startup"
    /\ IF SyncEnabled(config)
       THEN /\ MiniserverSync(result, save1, save2)
            /\ ctl' = [ControlOp(topic, payload) EXCEPT
                          !.error = IF sync_call'.raised THEN "OSError" ELSE "none",
                          !.raised = sync_call'.raised]
       ELSE /\ ctl' = ControlOp(topic, payload)
            /\ sync_call' = SyncSkipped
            /\ UNCHANGED <<config, config_file, topic_whitelist, caches>>
    /\ NoCtlMessage
    /\ UNCHANGED <<compiled_subscription_filter, do_not_forward_patterns, cache_size,
                   expand_json, publish_processed_topics, clientVars, egressVars,
                   uiVars, headless, fn_call>>

\* case TOPIC.CONFIG_GET
OnConfigGet(topic, payload) ==
    /\ Route(topic) = "get"
    /\ LET body == Dumps(ToDict(GetSafeConfig(config)))
       IN  ctl' = IF body.ok
                  THEN [ControlOp(topic, payload) EXCEPT
                           !.published = PublishCall("config/", <<"r","e","s","p","o","n","s","e">>, body.text)]
                  ELSE [ControlOp(topic, payload) EXCEPT !.error = "TypeError", !.raised = TRUE]
    /\ sync_call' = NoSync
    /\ NoCtlMessage
    /\ UNCHANGED <<procVars, caches, clientVars, egressVars, config, config_file,
                   uiVars, headless, fn_call>>

\* a handler without except clauses
CaughtNever(error) == FALSE

\* except orjson.JSONDecodeError / except ConfigError: logged, not raised
Caught(error) == error \in {"JSONDecodeError", "ConfigError"}

\* how an exception ends the handling of a request
Ended(op, error) ==
    [op EXCEPT !.error = error, !.logged = Caught(error), !.raised = ~Caught(error)]

\* case TOPIC.CONFIG_SET | TOPIC.CONFIG_ADD | TOPIC.CONFIG_REMOVE
OnConfigChange(topic, payload, failAt) ==
    /\ Route(topic) = "change"
    /\ \E updates \in {Loads(Decode(payload))},
          list_mode \in {ListMode(LastSegment(topic))} :
           IF failAt > 0 /\ (~updates.ok \/ updates.val.t # "obj"
                                \/ Len(updates.val.v) < failAt)
           THEN FALSE
           ELSE IF ~updates.ok
           THEN /\ ctl' = Ended(ControlOp(topic, payload), "JSONDecodeError")
                /\ UNCHANGED <<config, config_file, topic_whitelist, caches, clientVars,
                               uiVars>>
           ELSE IF updates.val.t # "obj"
           THEN /\ ctl' = Ended(ControlOp(topic, payload), "AttributeError")
                /\ UNCHANGED <<config, config_file, topic_whitelist, caches, clientVars,
                               uiVars>>
           ELSE \E o \in UpdateFields(config, config_file, updates.val.v, list_mode,
                                     failAt, 0) :
                    IF o.error = "none"
                    THEN /\ Restart(o.file)
                         /\ ctl' = [ControlOp(topic, payload) EXCEPT !.updated = o.config,
                                                            !.restarted = TRUE]
                    ELSE /\ config' = o.config
                         /\ config_file' = o.file
                         /\ ctl' = Ended([ControlOp(topic, payload)
                                              EXCEPT !.updated = o.config], o.error)
                         /\ UNCHANGED <<topic_whitelist, caches, clientVars, uiVars>>
    /\ sync_call' = NoSync
    /\ NoCtlMessage
    /\ UNCHANGED <<compiled_subscription_filter, do_not_forward_patterns, cache_size,
                   expand_json, publish_processed_topics, egressVars, headless, fn_call>>

\* case TOPIC.CONFIG_UPDATE | TOPIC.CONFIG_RESTART
OnConfigRestart(topic, payload) ==
    /\ Route(topic) = "restart"
    /\ Restart(config_file)
    /\ ctl' = [ControlOp(topic, payload) EXCEPT !.restarted = TRUE]
    /\ sync_call' = NoSync
    /\ NoCtlMessage
    /\ UNCHANGED <<compiled_subscription_filter, do_not_forward_patterns, cache_size,
                   expand_json, publish_processed_topics, egressVars, headless, fn_call>>

\* what sync_miniserver_whitelist and the two saves come to on a startup
\* event; a save that is not reached is left out
StartupSyncOutcomes ==
    {o \in {SyncRaises, SyncReturns(<<PyStrVal(<<"c">>)>>)} \X BOOLEAN \X BOOLEAN :
         /\ o[1].raises => o[2]
         /\ ~o[1].raises /\ o[2] => o[3]}

\* received_mqtt_message(topic, message)
ReceivedMqttMessage(topic, payload) ==
    \/ \E spawned \in BOOLEAN : OnStartUi(topic, payload, spawned)
    \/ \E outcome \in {"exits", "timeout", "error"} : OnStopUi(topic, payload, outcome)
    \/ \E o \in StartupSyncOutcomes : OnStartupEvent(topic, payload, o[1], o[2], o[3])
    \/ OnConfigGet(topic, payload)
    \/ \E failAt \in 0..MaxFailAt : OnConfigChange(topic, payload, failAt)
    \/ OnConfigRestart(topic, payload)
    \/ /\ Route(topic) = "pipeline"
       /\ OnMessage(topic, payload, 0)

\* the UI process ends on its own
UiExits ==
    /\ ui_process = "alive"
    /\ ui_process' = "exited"
    /\ ui_live' = ui_live - 1
    /\ UNCHANGED <<pipelineVars, egressVars, config, config_file, sync_call, ctl,
                   headless, fn_call>>


(***************************************************************************)
(* http_miniserver_handler.py: egress over HTTP.  A call of                *)
(* send_to_miniserver_via_http runs one send_single_request task per pair  *)
(* of its data; all calls share connection_semaphore.  Tasks run one at a  *)
(* time, in the order in which the event loop queued them, each up to its  *)
(* next await.                                                             *)
(***************************************************************************)
NumCalls == 2

MaxParallel == 2

\* at most this many send_single_request tasks exist at a time
MaxActive == 3

HttpCalls == 1..NumCalls

\* the data that calls carry: one pair, two pairs
HttpBatches ==
    { << Pair(<<"a","/","b">>, PyInt(<<"1">>)) >>,
      << Pair(<<"a","/","b">>, PyInt(<<"1">>)), Pair(<<"c">>, PyStrVal(<<"o","n">>)) >> }

TaskIds == HttpCalls \X UNION {DOMAIN data : data \in HttpBatches}

Active == {t \in TaskIds : http_task[t].pc # "idle"}

\* What session.get(url) comes to: a response with a status, or an exception
\* given by the classes it is an instance of.
Response(status) == [kind |-> "status", status |-> status, classes |-> {}]

Raised(classes) == [kind |-> "raise", status |-> 0, classes |-> classes]

HttpOutcomes ==
    { Response(200), Response(404),
      Raised({"TimeoutError", "OSError", "Exception"}),
      Raised({"CancelledError"}),
      Raised({"OSError", "Exception"}),
      Raised({"ClientError", "OSError", "Exception"}),
      Raised({"ClientError", "Exception"}),
      Raised({"Exception"}) }

\* except clauses that try OSError before TimeoutError
ExceptCodeOsFirst(classes) ==
    IF "OSError" \in classes THEN 503
    ELSE IF "TimeoutError" \in classes THEN 408
    ELSE IF "CancelledError" \in classes THEN 499
    ELSE IF "ClientError" \in classes THEN 500
    ELSE 500

\* the except clauses of send_single_request, first match wins
ExceptCode(classes) ==
    IF "TimeoutError" \in classes THEN 408
    ELSE IF "CancelledError" \in classes THEN 499
    ELSE IF "OSError" \in classes THEN 503
    ELSE IF "ClientError" \in classes THEN 500
    ELSE 500

\* the code that send_single_request records for an outcome
OutcomeCode(outcome) ==
    IF outcome.kind = "status" THEN outcome.status ELSE ExceptCode(outcome.classes)

\* f"http://{target_ip}/dev/sps/io/{safe_topic}/{safe_value}", after the host
Url(pair) ==
    <<"/","d","e","v","/","s","p","s","/","i","o","/">>
        \o NormalizeTopic(pair.topic) \o <<"/">> \o PyStr(pair.value)

\* a semaphore sized one above the configured number
SemaphoreOversized(n) == n + 1

\* asyncio.Semaphore(miniserver_max_parallel_connections): the initial _value
SemaphoreInit(n) == n

IdleTask == [pc |-> "idle", code |-> 0, acquired |-> 0, released |-> 0]

\* Semaphore.locked(): no permit left, or a waiter that is not cancelled
SemLocked ==
    \/ sem_value = 0
    \/ \E i \in DOMAIN sem_waiters : http_task[sem_waiters[i]].pc # "cancelled_wait"

\* Semaphore._wake_up_next() on the semaphore state st = [value, task, ready]:
\* the first waiter whose future is not done gets the permit and is queued
\* to run
WakeUpNext(st, waiters) ==
    LET pending == {i \in DOMAIN waiters : st.task[waiters[i]].pc = "waiting"}
    IN  IF pending = {} THEN st
        ELSE LET i == CHOOSE j \in pending : \A k \in pending : j <= k
                 w == waiters[i]
             IN  [value |-> st.value - 1,
                  task  |-> [st.task EXCEPT ![w].pc = "woken"],
                  ready |-> Append(st.ready, w)]

\* Semaphore.release()
SemRelease(st, waiters) ==
    WakeUpNext([st EXCEPT !.value = st.value + 1], waiters)

\* the end of Semaphore.acquire(): while self._value > 0, wake up the next
\* waiter, until there is none to wake up
RECURSIVE WakeUpWhile(_, _)
WakeUpWhile(st, waiters) ==
    IF st.value > 0 /\ \E i \in DOMAIN waiters : st.task[waiters[i]].pc = "waiting"
    THEN WakeUpWhile(WakeUpNext(st, waiters), waiters)
    ELSE st

Without(seq, x) == SelectSeq(seq, LAMBDA y : y # x)

Scheduled(t) == loop_ready # <<>> /\ Head(loop_ready) = t

PairOf(t) == http_data[t[1]][t[2]]

\* a semaphore that is given back only when the request raised nothing
ReleasesOnResponse(outcome) == outcome.kind = "status"

\* async with self.connection_semaphore: the permit is given back on exit,
\* whatever left the block
ReleasesOn(outcome) == TRUE

\* send_to_miniserver_via_http(data) up to gather: the session is opened and
\* one task per pair is created, in the order of data
HttpCall(c, data) ==
    /\ http_data[c] = <<>>
    \* a call is numbered by the first free slot
    /\ \A c2 \in HttpCalls : c2 < c => http_data[c2] # <<>>
    /\ Cardinality(Active) + Len(data) <= MaxActive
    /\ http_data' = [http_data EXCEPT ![c] = data]
    /\ UNCHANGED http_results
    /\ http_task' = [t \in TaskIds |->
                        IF t[1] = c
                        THEN IF t[2] <= Len(data) THEN [IdleTask EXCEPT !.pc = "ready"]
                             ELSE IdleTask
                        ELSE http_task[t]]
    /\ loop_ready' = loop_ready \o [i \in 1..Len(data) |-> <<c, i>>]
    /\ UNCHANGED <<forwarded, miniserver_max_parallel_connections, sem_value, sem_waiters>>
    /\ UNCHANGED <<pipelineVars, wsVars, ctlVars, fn_call>>

\* send_single_request from its start to its first await: the permit is
\* taken and the GET issued, or the task queues behind the semaphore
SendSingleRequest(t) ==
    /\ Scheduled(t)
    /\ http_task[t].pc = "ready"
    /\ loop_ready' = Tail(loop_ready)
    /\ IF ~SemLocked
       THEN /\ sem_value' = sem_value - 1
            /\ http_task' = [http_task EXCEPT ![t].pc = "inflight", ![t].acquired = @ + 1]
            /\ UNCHANGED sem_waiters
       ELSE /\ sem_waiters' = Append(sem_waiters, t)
            /\ http_task' = [http_task EXCEPT ![t].pc = "waiting"]
            /\ UNCHANGED sem_value
    /\ UNCHANGED <<forwarded, miniserver_max_parallel_connections, http_data, http_results>>
    /\ UNCHANGED <<pipelineVars, wsVars, ctlVars, fn_call>>

\* acquire() resumes with the permit it was handed: the task leaves the
\* waiters, passes spare permits on, and issues the GET
AcquireResumed(t) ==
    /\ Scheduled(t)
    /\ http_task[t].pc = "woken"
    /\ LET waiters == Without(sem_waiters, t)
           st0 == [value |-> sem_value,
                   task  |-> [http_task EXCEPT ![t].pc = "inflight",
                                               ![t].acquired = @ + 1],
                   ready |-> Tail(loop_ready)]
       IN  \E st \in {WakeUpWhile(st0, waiters)} :
               /\ sem_waiters' = waiters
               /\ sem_value' = st.value
               /\ http_task' = st.task
               /\ loop_ready' = st.ready
    /\ UNCHANGED <<forwarded, miniserver_max_parallel_connections, http_data, http_results>>
    /\ UNCHANGED <<pipelineVars, wsVars, ctlVars, fn_call>>

\* acquire() resumes with CancelledError: the task leaves the waiters, gives
\* back the permit if it had been handed one, and send_single_request
\* records 499
AcquireCancelled(t) ==
    /\ Scheduled(t)
    /\ http_task[t].pc \in {"cancelled_wait", "woken_cancelled"}
    /\ LET waiters == Without(sem_waiters, t)
           st0 == [value |-> IF http_task[t].pc = "woken_cancelled"
                             THEN sem_value + 1 ELSE sem_value,
                   task  |-> [http_task EXCEPT ![t].pc = "done",
                                               ![t].code = ExceptCode({"CancelledError"})],
                   ready |-> Tail(loop_ready)]
       IN  \E st \in {WakeUpWhile(st0, waiters)} :
               /\ sem_waiters' = waiters
               /\ sem_value' = st.value
               /\ http_task' = st.task
               /\ loop_ready' = st.ready
    /\ http_results' = [http_results EXCEPT
                           ![t[1]] = DictSet(@, PairOf(t).topic, ExceptCode({"CancelledError"}))]
    /\ UNCHANGED <<forwarded, miniserver_max_parallel_connections, http_data>>
    /\ UNCHANGED <<pipelineVars, wsVars, ctlVars, fn_call>>

\* Task.cancel() on a task that waits for the semaphore: its future is
\* cancelled, or, when the future already holds the permit, the task is
\* marked to be cancelled when it runs
CancelWaiter(t) ==
    /\ http_task[t].pc \in {"waiting", "woken"}
    /\ IF http_task[t].pc = "waiting"
       THEN /\ http_task' = [http_task EXCEPT ![t].pc = "cancelled_wait"]
            /\ loop_ready' = Append(loop_ready, t)
       ELSE /\ http_task' = [http_task EXCEPT ![t].pc = "woken_cancelled"]
            /\ UNCHANGED loop_ready
    /\ UNCHANGED <<forwarded, miniserver_max_parallel_connections, sem_value, sem_waiters,
                   http_data, http_results>>
    /\ UNCHANGED <<pipelineVars, wsVars, ctlVars, fn_call>>

\* session.get(url) comes to its outcome: both async with blocks are left,
\* the code is recorded, the task ends
Complete(t, outcome) ==
    /\ http_task[t].pc = "inflight"
    /\ LET st0 == [value |-> sem_value,
                   task  |-> [http_task EXCEPT ![t].pc = "done",
                                               ![t].code = OutcomeCode(outcome),
                                               ![t].released =
                                                   IF ReleasesOn(outcome) THEN @ + 1 ELSE @],
                   ready |-> loop_ready]
       IN  \E st \in {IF ReleasesOn(outcome) THEN SemRelease(st0, sem_waiters) ELSE st0} :
               /\ sem_value' = st.value
               /\ http_task' = st.task
               /\ loop_ready' = st.ready
    /\ http_results' = [http_results EXCEPT
                           ![t[1]] = DictSet(@, PairOf(t).topic, OutcomeCode(outcome))]
    /\ UNCHANGED <<forwarded, miniserver_max_parallel_connections, sem_waiters, http_data>>
    /\ UNCHANGED <<pipelineVars, wsVars, ctlVars, fn_call>>

\* gather returns when every task of the call has ended; the session is
\* closed and results returned
HttpReturn(c) ==
    /\ http_data[c] # <<>>
    /\ \A i \in 1..Len(http_data[c]) : http_task[<<c, i>>].pc = "done"
    /\ http_data' = [http_data EXCEPT ![c] = <<>>]
    /\ http_results' = [http_results EXCEPT ![c] = <<>>]
    /\ http_task' = [t \in TaskIds |-> IF t[1] = c THEN IdleTask ELSE http_task[t]]
    /\ UNCHANGED <<forwarded, miniserver_max_parallel_connections, sem_value, sem_waiters,
                   loop_ready>>
    /\ UNCHANGED <<pipelineVars, wsVars, ctlVars, fn_call>>

\* str(n) for an int n >= 0
RECURSIVE IntChars(_)
IntChars(n) ==
    IF n < 10 THEN IndexChars(n) ELSE IntChars(n \div 10) \o IndexChars(n % 10)

\* response_codes.get(topic, {}).get('code', 0)
CodeOf(response_codes, topic) ==
    IF DictHas(response_codes, topic) THEN DictGet(response_codes, topic) ELSE 0

\* publish_forwarded_topic: the publish on
\* {base_topic}forwardedtopics/{normalize_topic(topic)} with the body
\* orjson.dumps({"value": value, "http_code": http_code})
ForwardedEcho(topic, value, http_code) ==
    Publication(<<"f","o","r","w","a","r","d","e","d","t","o","p","i","c","s","/">>,
                NormalizeTopic(topic),
                Dumps(Obj(<< Member(<<"v","a","l","u","e">>, value),
                             Member(<<"h","t","t","p","_","c","o","d","e">>,
                                    PyInt(IntChars(http_code))) >>)).text)

\* the echo loop of send_to_miniserver over data, with the callback
\* MQTTClient.publish: a message is dropped while _conn is not set, handed
\* to the transport otherwise; the transport call may raise, publish
\* re-raises and the exception leaves the loop.  failAt is the number of the
\* transport call that raises (0: none does).
RECURSIVE ForwardLoop(_, _, _, _, _, _)
ForwardLoop(data, response_codes, connected, failAt, calls, out) ==
    IF data = <<>> THEN [raised |-> FALSE, calls |-> calls, published |-> out]
    ELSE LET pub == ForwardedEcho(Head(data).topic, Head(data).value,
                                  CodeOf(response_codes, Head(data).topic))
         IN  IF ~connected
             THEN ForwardLoop(Tail(data), response_codes, connected, failAt,
                              Append(calls, pub), out)
             ELSE IF Len(out) + 1 = failAt
             THEN [raised |-> TRUE, calls |-> Append(calls, pub), published |-> out]
             ELSE ForwardLoop(Tail(data), response_codes, connected, failAt,
                              Append(calls, pub), Append(out, pub))

\* send_to_miniserver(data, mqtt_publish_callback = mqtt_client.publish) in
\* HTTP mode, from the return of send_to_miniserver_via_http on: gather has
\* returned, the session is closed, and the echoes are published when
\* global_config.debug.publish_forwarded_topics (enabled) is set
SendToMiniserverReturn(c, enabled, failAt) ==
    /\ http_data[c] # <<>>
    /\ \A i \in 1..Len(http_data[c]) : http_task[<<c, i>>].pc = "done"
    /\ failAt > 0 => enabled /\ conn /\ failAt <= Len(http_data[c])
    /\ \E r \in {IF enabled
                 THEN ForwardLoop(http_data[c], http_results[c], conn, failAt, <<>>, <<>>)
                 ELSE [raised |-> FALSE, calls |-> <<>>, published |-> <<>>]} :
           forwarded' = [ran |-> TRUE, data |-> http_data[c],
                         codes |-> [i \in DOMAIN http_data[c] |-> http_task[<<c, i>>].code],
                         enabled |-> enabled, calls |-> r.calls,
                         published |-> r.published, raised |-> r.raised]
    /\ http_data' = [http_data EXCEPT ![c] = <<>>]
    /\ http_results' = [http_results EXCEPT ![c] = <<>>]
    /\ http_task' = [t \in TaskIds |-> IF t[1] = c THEN IdleTask ELSE http_task[t]]
    /\ UNCHANGED <<miniserver_max_parallel_connections, sem_value, sem_waiters,
                   loop_ready>>
    /\ UNCHANGED <<pipelineVars, wsVars, ctlVars, fn_call>>

\* the egress while nothing is sent over HTTP
HttpIdle ==
    /\ sem_waiters = <<>>
    /\ loop_ready = <<>>
    /\ http_data = [c \in HttpCalls |-> <<>>]
    /\ http_results = [c \in HttpCalls |-> <<>>]
    /\ http_task = [t \in TaskIds |-> IdleTask]
    /\ forwarded = NoForward

\* the pipeline while no message is delivered: default configuration
PipelineIdle ==
    /\ compiled_subscription_filter = NoPattern
    /\ topic_whitelist = {}
    /\ do_not_forward_patterns = NoPattern
    /\ cache_size = 0
    /\ expand_json = TRUE
    /\ publish_processed_topics = FALSE
    /\ caches = EmptyCaches
    /\ conn = FALSE
    /\ client = ClientOf(conn)
    /\ handled = FALSE
    /\ in_topic = <<>>
    /\ in_payload = <<>>
    /\ processed_tuples = <<>>
    /\ final_data = <<>>
    /\ published = <<>>
    /\ raised = FALSE
    /\ dispatched = <<>>
    /\ logged = "none"

(***************************************************************************)
(* http_miniserver_handler.py: egress over the WebSocket session.  The     *)
(* session (loxwebsocket) is not part of the sources; its connect(), state *)
(* and send_websocket_command() follow the state machine of the            *)
(* specification: disconnected -> connecting -> connected, closing and     *)
(* disconnected on remote close, one owner of the transition at a time.    *)
(***************************************************************************)
NumSenders == 2

Senders == 1..NumSenders

\* the data that calls carry: as over HTTP, and the same topic twice
WsBatches ==
    HttpBatches \cup { << Pair(<<"c">>, PyStrVal(<<"o","n">>)), Pair(<<"c">>, PyTrue) >> }

IdleSender == [pc |-> "idle", data |-> <<>>, k |-> 0, results |-> <<>>,
               sawConnected |-> FALSE, connectOk |-> FALSE, connectFailed |-> FALSE,
               calls |-> 0, sentIn |-> {}, failed |-> {}]

\* a session without the guard: any caller may start an attempt
GuardAlwaysFree(guard) == TRUE

\* the single-flight guard of connect(): free when no caller owns it
GuardFree(guard) == guard = 0

\* a handler that takes any session for a connected one
NeedsConnectNever(state) == FALSE

\* if "CONNECTED" not in ws_client.state
NeedsConnect(state) == state # "connected"

\* a command goes out only on a connected session and when the write succeeds
Transmits(state, ok) == state = "connected" /\ ok

\* send_to_minisever_via_websocket(data) is called; the coroutine has not run
WsCall(s, data) ==
    /\ ws_sender[s].pc = "idle"
    \* a call is numbered by the first free slot
    /\ \A s2 \in Senders : s2 < s => ws_sender[s2].pc # "idle"
    /\ ws_sender' = [ws_sender EXCEPT ![s] = [IdleSender EXCEPT !.pc = "start", !.data = data]]
    /\ UNCHANGED <<ws_state, ws_guard>>
    /\ UNCHANGED <<pipelineVars, httpVars, ctlVars, fn_call>>

\* the state check: connect() is called unless the session is connected
WsStart(s) ==
    /\ ws_sender[s].pc = "start"
    /\ IF NeedsConnect(ws_state)
       THEN ws_sender' = [ws_sender EXCEPT ![s].pc = "connect"]
       ELSE ws_sender' = [ws_sender EXCEPT ![s].pc = "send", ![s].k = 1,
                                           ![s].sawConnected = (ws_state = "connected")]
    /\ UNCHANGED <<ws_state, ws_guard>>
    /\ UNCHANGED <<pipelineVars, httpVars, ctlVars, fn_call>>

\* connect() gets the guard: it returns at once when another caller has
\* connected the session meanwhile, and starts the attempt otherwise
ConnectEnter(s) ==
    /\ ws_sender[s].pc = "connect"
    /\ GuardFree(ws_guard)
    /\ IF ws_state = "connected"
       THEN /\ ws_sender' = [ws_sender EXCEPT ![s].pc = "send", ![s].k = 1,
                                              ![s].connectOk = TRUE]
            /\ UNCHANGED <<ws_state, ws_guard>>
       ELSE /\ ws_sender' = [ws_sender EXCEPT ![s].pc = "connecting"]
            /\ ws_state' = "connecting"
            /\ ws_guard' = s
    /\ UNCHANGED <<pipelineVars, httpVars, ctlVars, fn_call>>

\* the attempt ends: connected and connect() returns, or disconnected and
\* connect() raises, which ends send_to_minisever_via_websocket
ConnectDone(s, ok) ==
    /\ ws_sender[s].pc = "connecting"
    /\ ws_state' = IF ok THEN "connected" ELSE "disconnected"
    /\ ws_guard' = IF ws_guard = s THEN 0 ELSE ws_guard
    /\ ws_sender' = [ws_sender EXCEPT
                        ![s].pc = IF ok THEN "send" ELSE "raised",
                        ![s].k = IF ok THEN 1 ELSE 0,
                        ![s].connectOk = ok,
                        ![s].connectFailed = ~ok]
    /\ UNCHANGED <<pipelineVars, httpVars, ctlVars, fn_call>>

\* a loop that records every command as sent
SendCodeAlwaysOk(sent) == 200

\* results[topic] = {'code': 200} after the command returned, {'code': 500,
\* ...} in the except clause
SendCode(sent) == IF sent THEN 200 ELSE 500

\* one turn of the loop over data: send_websocket_command(safe_topic,
\* str(value)); 200 when it returns, 500 when it raises.  ok: the write
\* succeeds; dropped: a failing write finds the connection gone.
WsSend(s, ok, dropped) ==
    /\ ws_sender[s].pc = "send"
    /\ LET me == ws_sender[s]
           pair == me.data[me.k]
           sent == Transmits(ws_state, ok)
       IN  /\ ws_state' = IF ws_state = "connected" /\ ~ok /\ dropped
                          THEN "disconnected" ELSE ws_state
           /\ ws_sender' = [ws_sender EXCEPT
                               ![s].results = DictSet(@, pair.topic, SendCode(sent)),
                               ![s].failed = IF sent THEN @ ELSE @ \cup {me.k},
                               ![s].calls = @ + 1,
                               ![s].sentIn = IF sent THEN @ \cup {ws_state} ELSE @,
                               ![s].k = @ + 1,
                               ![s].pc = IF me.k = Len(me.data) THEN "done" ELSE "send"]
    /\ UNCHANGED ws_guard
    /\ UNCHANGED <<pipelineVars, httpVars, ctlVars, fn_call>>

\* the call has returned its results or raised; the caller is done with it
WsReturn(s) ==
    /\ ws_sender[s].pc \in {"done", "raised"}
    /\ ws_sender' = [ws_sender EXCEPT ![s] = IdleSender]
    /\ UNCHANGED <<ws_state, ws_guard>>
    /\ UNCHANGED <<pipelineVars, httpVars, ctlVars, fn_call>>

\* the controller closes the connection
RemoteClose ==
    /\ ws_state = "connected"
    /\ ws_state' = "closing"
    /\ UNCHANGED <<ws_guard, ws_sender>>
    /\ UNCHANGED <<pipelineVars, httpVars, ctlVars, fn_call>>

CloseDone ==
    /\ ws_state = "closing"
    /\ ws_state' = "disconnected"
    /\ UNCHANGED <<ws_guard, ws_sender>>
    /\ UNCHANGED <<pipelineVars, httpVars, ctlVars, fn_call>>

\* the session before the first send
WsIdle ==
    /\ ws_state = "disconnected"
    /\ ws_guard = 0
    /\ ws_sender = [s \in Senders |-> IdleSender]

(***************************************************************************)
(* udp_handler.py: the parser of datagrams and the publish that follows.   *)
(* A parse result is [ok |-> FALSE] for None, or the command, the topic    *)
(* and the payload.                                                        *)
(***************************************************************************)
\* str.find(c): the first position of c in s, 0 when there is none (-1 in
\* the code, whose positions start at 0)
Find(s, c) ==
    IF c \in Range(s) THEN CHOOSE i \in DOMAIN s : s[i] = c /\ \A j \in 1..(i - 1) : s[j] # c
    ELSE 0

\* the length of the first token of s, which starts with no whitespace
RECURSIVE TokenLen(_)
TokenLen(s) == IF s = <<>> \/ IsSpace(Head(s)) THEN 0 ELSE 1 + TokenLen(Tail(s))

\* str.split(): the maximal runs of characters that are no whitespace
RECURSIVE Split(_)
Split(s) ==
    LET t == LStrip(s)
    IN  IF t = <<>> THEN <<>>
        ELSE <<Slice(t, 1, TokenLen(t))>> \o Split(Slice(t, TokenLen(t) + 1, Len(t)))

\* str.split(None, 1): the first token, and what follows the whitespace
\* after it when there is something
SplitOnce(s) ==
    LET t == LStrip(s)
        rest == LStrip(Slice(t, TokenLen(t) + 1, Len(t)))
    IN  IF t = <<>> THEN <<>>
        ELSE IF rest = <<>> THEN <<Slice(t, 1, TokenLen(t))>>
        ELSE <<Slice(t, 1, TokenLen(t)), rest>>

\* " ".join(tokens)
RECURSIVE Join(_)
Join(tokens) ==
    IF tokens = <<>> THEN <<>>
    ELSE IF Len(tokens) = 1 THEN Head(tokens)
    ELSE Head(tokens) \o <<" ">> \o Join(Tail(tokens))

has_slash(s) == "/" \in Range(s)

NoResult == [ok |-> FALSE, command |-> <<>>, topic |-> <<>>, payload |-> <<>>]

Parsed(command, topic, payload) ==
    [ok |-> TRUE, command |-> command, topic |-> topic, payload |-> payload]

CmdPublish == <<"p","u","b","l","i","s","h">>

CmdRetain == <<"r","e","t","a","i","n">>

\* a topic loop that keeps a token only when it holds a slash itself
KeepsSlashOnly(tokens, i) ==
    has_slash(tokens[i])

\* the condition of the topic loop on the token at i (1 < i < n)
Keeps(tokens, i) ==
    has_slash(tokens[i]) \/ (has_slash(tokens[i - 1]) /\ has_slash(tokens[i + 1]))

\* the while loop of step 4: the index at which the payload starts
RECURSIVE PayloadStart(_, _)
PayloadStart(tokens, i) ==
    IF i < Len(tokens) /\ Keeps(tokens, i) THEN PayloadStart(tokens, i + 1) ELSE i

\* a brace rule that keeps the whitespace at the end of the topic
BraceSplitUntrimmed(rest, brace_index) ==
    [topic |-> Slice(rest, 1, brace_index - 1),
     payload |-> Strip(Slice(rest, brace_index, Len(rest)))]

\* step 2: topic_part and payload_part around the first '{'
BraceSplit(rest, brace_index) ==
    [topic |-> RStrip(Slice(rest, 1, brace_index - 1)),
     payload |-> Strip(Slice(rest, brace_index, Len(rest)))]

\* steps 2 to 4 of parse_udp_message on the body
ParseRest(command, rest) ==
    IF rest = <<>> THEN NoResult
    ELSE IF Find(rest, "{") # 0
    THEN LET b == BraceSplit(rest, Find(rest, "{"))
         IN  IF b.topic = <<>> \/ b.payload = <<>> THEN NoResult
             ELSE Parsed(command, b.topic, b.payload)
    ELSE LET tokens == Split(rest)
         IN  IF Len(tokens) < 2 THEN NoResult
             ELSE IF Len(tokens) = 2 THEN Parsed(command, tokens[1], tokens[2])
             ELSE LET i == PayloadStart(tokens, 2)
                      topic_str == Strip(Join(Slice(tokens, 1, i - 1)))
                      payload_str == Strip(Join(Slice(tokens, i, Len(tokens))))
                  IN  IF topic_str = <<>> \/ payload_str = <<>> THEN NoResult
                      ELSE Parsed(command, topic_str, payload_str)

\* parse_udp_message
ParseUdpMessage(udpmsg) ==
    LET msg == Strip(udpmsg)
        parts == SplitOnce(msg)
    IN  IF msg = <<>> THEN NoResult
        ELSE IF parts = <<>> THEN NoResult
        ELSE IF Lower(parts[1]) \in {CmdPublish, CmdRetain}
        THEN IF Len(parts) < 2 THEN NoResult
             ELSE ParseRest(Lower(parts[1]), Strip(parts[2]))
        ELSE ParseRest(CmdPublish, msg)

\* a handler that never sets the retain flag
RetainFlagNever(command) == FALSE

\* the third argument of mqtt_client.publish for a command
RetainFlag(command) == command = CmdRetain

\* handle_udp_message: the calls of mqtt_client.publish that it makes
PublishCalls(result) ==
    IF ~result.ok THEN <<>>
    ELSE IF result.command \in {CmdPublish, CmdRetain}
    THEN << [topic |-> result.topic, message |-> result.payload,
             retain |-> RetainFlag(result.command)] >>
    ELSE <<>>

(***************************************************************************)
(* Specification of the ingress pipeline                                   *)
(***************************************************************************)
vars == <<pipelineVars, egressVars, ctlVars, fn_call>>

\* After construction: the subscription filter is compiled from the
\* configuration, the whitelist is the configured one, no do-not-forward
\* pattern is set, the caches are empty, the client is not connected.
PipelineInit ==
    /\ compiled_subscription_filter \in {CompileFilters(fs) : fs \in SubscriptionFilterLists}
    /\ topic_whitelist \in Whitelists
    /\ do_not_forward_patterns = NoPattern
    /\ cache_size = 0
    /\ expand_json \in BOOLEAN
    /\ publish_processed_topics \in BOOLEAN
    /\ caches = EmptyCaches
    /\ conn = FALSE
    /\ client = ClientOf(conn)
    /\ handled = FALSE
    /\ in_topic = <<>>
    /\ in_payload = <<>>
    /\ processed_tuples = <<>>
    /\ final_data = <<>>
    /\ published = <<>>
    /\ raised = FALSE
    /\ dispatched = <<>>
    /\ logged = "none"

Init ==
    /\ PipelineInit
    /\ miniserver_max_parallel_connections = MaxParallel
    /\ sem_value = SemaphoreInit(miniserver_max_parallel_connections)
    /\ HttpIdle
    /\ WsIdle
    /\ CtlIdle

Next ==
    \/ \E topic \in Topics, payload \in Payloads, failAt \in 0..MaxFailAt :
           OnMessage(topic, payload, failAt)
    \/ OnConnect
    \/ OnDisconnect
    \/ \E filters \in SubscriptionFilterLists : UpdateSubscriptionFilters(filters)
    \/ \E whitelist \in Whitelists : UpdateTopicWhitelist(whitelist)
    \/ \E filters \in DoNotForwardLists : UpdateDoNotForward(filters)

Spec == Init /\ [][Next]_vars

(***************************************************************************)
(* Specification of the egress over HTTP                                   *)
(***************************************************************************)
InitHttp ==
    /\ PipelineIdle
    /\ miniserver_max_parallel_connections \in 1..MaxParallel
    /\ sem_value = SemaphoreInit(miniserver_max_parallel_connections)
    /\ HttpIdle
    /\ WsIdle
    /\ CtlIdle

NextHttp ==
    \/ \E c \in HttpCalls, data \in HttpBatches : HttpCall(c, data)
    \/ \E t \in TaskIds : SendSingleRequest(t)
    \/ \E t \in TaskIds : AcquireResumed(t)
    \/ \E t \in TaskIds : AcquireCancelled(t)
    \/ \E t \in TaskIds : CancelWaiter(t)
    \/ \E t \in TaskIds, outcome \in HttpOutcomes : Complete(t, outcome)
    \/ \E c \in HttpCalls : HttpReturn(c)

SpecHttp == InitHttp /\ [][NextHttp]_vars

(***************************************************************************)
(* Specification of send_to_miniserver in HTTP mode: one call at a time,   *)
(* its forwards, the forwarded-topic echoes, the connection to the broker  *)
(***************************************************************************)
InitForward ==
    /\ PipelineIdle
    /\ miniserver_max_parallel_connections \in 1..MaxParallel
    /\ sem_value = SemaphoreInit(miniserver_max_parallel_connections)
    /\ HttpIdle
    /\ WsIdle
    /\ CtlIdle

NextForward ==
    \/ \E data \in HttpBatches : HttpCall(1, data)
    \/ \E t \in TaskIds : SendSingleRequest(t)
    \/ \E t \in TaskIds : AcquireResumed(t)
    \/ \E t \in TaskIds : AcquireCancelled(t)
    \/ \E t \in TaskIds : CancelWaiter(t)
    \/ \E t \in TaskIds, outcome \in HttpOutcomes : Complete(t, outcome)
    \/ \E enabled \in BOOLEAN, failAt \in 0..MaxFailAt :
           SendToMiniserverReturn(1, enabled, failAt)
    \/ OnConnect
    \/ OnDisconnect

SpecForward == InitForward /\ [][NextForward]_vars

(***************************************************************************)
(* Specification of the egress over the WebSocket session                  *)
(***************************************************************************)
InitWs ==
    /\ PipelineIdle
    /\ miniserver_max_parallel_connections = MaxParallel
    /\ sem_value = SemaphoreInit(miniserver_max_parallel_connections)
    /\ HttpIdle
    /\ WsIdle
    /\ CtlIdle

NextWs ==
    \/ \E s \in Senders, data \in WsBatches : WsCall(s, data)
    \/ \E s \in Senders : WsStart(s)
    \/ \E s \in Senders : ConnectEnter(s)
    \/ \E s \in Senders, ok \in BOOLEAN : ConnectDone(s, ok)
    \/ \E s \in Senders, ok \in BOOLEAN, dropped \in BOOLEAN : WsSend(s, ok, dropped)
    \/ \E s \in Senders : WsReturn(s)
    \/ RemoteClose
    \/ CloseDone

SpecWs == InitWs /\ [][NextWs]_vars

(***************************************************************************)
(* Specification of the whitelist synchronisation: the relay with its      *)
(* caches in use, the controller's startup event, messages in between      *)
(***************************************************************************)
MaxCacheSize == 2

TitleAB == PyStrVal(<<"a","_","b">>)

TitleC == PyStrVal(<<"c">>)

\* what sync_miniserver_whitelist comes to: an exception, or the titles
SyncResults ==
    {SyncRaises, SyncReturns(<<>>), SyncReturns(<<TitleAB>>),
     SyncReturns(<<TitleC, TitleAB, TitleC>>)}

\* a configuration file that was written by hand
ConfigFiles ==
    { File(
      [broker     |-> << Member(F_user, PyStrVal(<<"u">>)),
                         Member(F_password, PyStrVal(<<"p">>)) >>,
       miniserver |-> << Member(F_miniserver_user, PyStrVal(<<"m">>)),
                         Member(F_miniserver_pass, PyStrVal(<<"s">>)) >>,
       topics     |-> << Member(F_subscriptions, Arr(<<PyStrVal(<<"t","/","#">>)>>)),
                         Member(F_topic_whitelist, Arr(<<TitleAB>>)) >>]) }

SyncTopics == { <<"a","/","b">>, <<"c">> }

SyncPayloads == { <<"o","n">> }

InitSync ==
    /\ config_file \in {NoFile} \cup ConfigFiles
    /\ config = LoadConfig(config_file)
    /\ sync_call = NoSync
    /\ ctl = NoCtl
    /\ ui_process = "None"
    /\ ui_live = 0
    /\ headless = FALSE
    /\ fn_call = NoCall
    /\ compiled_subscription_filter = NoPattern
    /\ topic_whitelist = WhitelistOf(DictGet(config.topics, F_topic_whitelist))
    /\ do_not_forward_patterns = NoPattern
    /\ cache_size \in 1..MaxCacheSize
    /\ expand_json = TRUE
    /\ publish_processed_topics = FALSE
    /\ caches = EmptyCaches
    /\ conn = TRUE
    /\ client = ClientAt(config, conn)
    /\ handled = FALSE
    /\ in_topic = <<>>
    /\ in_payload = <<>>
    /\ processed_tuples = <<>>
    /\ final_data = <<>>
    /\ published = <<>>
    /\ raised = FALSE
    /\ dispatched = <<>>
    /\ logged = "none"
    /\ miniserver_max_parallel_connections = MaxParallel
    /\ sem_value = SemaphoreInit(miniserver_max_parallel_connections)
    /\ HttpIdle
    /\ WsIdle

NextSync ==
    \/ \E result \in SyncResults, save1 \in BOOLEAN, save2 \in BOOLEAN :
           HandleMiniserverSync(result, save1, save2)
    \/ \E topic \in SyncTopics, payload \in SyncPayloads : OnMessage(topic, payload, 0)

SpecSync == InitSync /\ [][NextSync]_vars

(***************************************************************************)
(* Specification of the synchronisation from an archive: the Miniserver    *)
(* serves an archive, well packed or not, and the relay synchronises       *)
(***************************************************************************)
InitArchive == InitSync

NextArchive ==
    \E archive \in Archives, inputs \in SyncResults, save1 \in BOOLEAN,
            save2 \in BOOLEAN :
           SyncFromArchive(archive, inputs, save1, save2)

SpecArchive == InitArchive /\ [][NextArchive]_vars

(***************************************************************************)
(* Specification of the control plane: messages on the reserved topics and *)
(* on other topics, the startup synchronisation, the connection, the UI    *)
(* process                                                                 *)
(***************************************************************************)
\* the topics of connect_and_subscribe_mqtt
ReservedTopics ==
    { TOPIC_CONFIG_SET, TOPIC_CONFIG_ADD, TOPIC_CONFIG_REMOVE, TOPIC_CONFIG_UPDATE,
      TOPIC_CONFIG_RESTART, TOPIC_CONFIG_GET, TOPIC_MINISERVER_STARTUP_EVENT,
      TOPIC_START_UI, TOPIC_STOP_UI }

\* topics of the relay that are no control topics, and a device topic
OtherTopics == { TOPIC_CONFIG_RESPONSE, TOPIC_UI_STATUS, <<"c">> }

\* the JSON documents of configuration requests: the whitelist, a known
\* field before an unknown one, a root that is no object
CtlDocs ==
    << Obj(<< Member(F_topic_whitelist, Arr(<< PyStrVal(<<"c">>) >>)) >>),
       Obj(<< Member(F_user, PyStrVal(<<"x">>)),
              Member(<<"n","o","f","i","e","l","d">>, PyInt(<<"1">>)) >>),
       Arr(<< PyStrVal(<<"c">>) >>) >>

\* with them: malformed JSON
CtlPayloads ==
    {Serialize(CtlDocs[i]) : i \in DOMAIN CtlDocs} \cup { <<"{", Quote, "k", Quote, ":", "1">> }

\* a request that turns the synchronisation off
SyncOffDoc == Obj(<< Member(F_sync_with_miniserver, PyFalse) >>)

\* the messages delivered to the router: requests and malformed JSON on
\* topics that read the payload, plain text on every topic
CtlMessages ==
    ({TOPIC_CONFIG_SET} \X {Serialize(SyncOffDoc), <<"{", Quote, "k", Quote, ":", "1">>})
        \cup ({TOPIC_CONFIG_ADD} \X {Serialize(CtlDocs[1])})
        \cup ((ReservedTopics \cup OtherTopics) \X { <<"o","n">> })

\* the messages on the configuration topics: every payload on the topics
\* that read it
ConfigMessages ==
    ({TOPIC_CONFIG_SET, TOPIC_CONFIG_ADD, TOPIC_CONFIG_REMOVE} \X CtlPayloads)
        \cup ({TOPIC_CONFIG_GET, TOPIC_CONFIG_UPDATE, TOPIC_CONFIG_RESTART,
               TOPIC_MINISERVER_STARTUP_EVENT} \X { <<"o","n">> })

InitCtl ==
    /\ config_file \in {NoFile} \cup ConfigFiles
    /\ config = LoadConfig(config_file)
    /\ sync_call = NoSync
    /\ ctl = NoCtl
    /\ ui_process = "None"
    /\ ui_live = 0
    /\ headless = FALSE
    /\ fn_call = NoCall
    /\ compiled_subscription_filter = NoPattern
    /\ topic_whitelist = WhitelistOf(DictGet(config.topics, F_topic_whitelist))
    /\ do_not_forward_patterns = NoPattern
    /\ cache_size = 0
    /\ expand_json = TRUE
    /\ publish_processed_topics = FALSE
    /\ caches = EmptyCaches
    /\ conn \in BOOLEAN
    /\ client = ClientAt(config, conn)
    /\ handled = FALSE
    /\ in_topic = <<>>
    /\ in_payload = <<>>
    /\ processed_tuples = <<>>
    /\ final_data = <<>>
    /\ published = <<>>
    /\ raised = FALSE
    /\ dispatched = <<>>
    /\ logged = "none"
    /\ miniserver_max_parallel_connections = MaxParallel
    /\ sem_value = SemaphoreInit(miniserver_max_parallel_connections)
    /\ HttpIdle
    /\ WsIdle

NextCtl ==
    \/ \E msg \in CtlMessages : ReceivedMqttMessage(msg[1], msg[2])
    \/ \E o \in StartupSyncOutcomes : HandleMiniserverSync(o[1], o[2], o[3])
    \/ OnConnect
    \/ OnDisconnect
    \/ UiExits

SpecCtl == InitCtl /\ [][NextCtl]_vars

(***************************************************************************)
(* Specification of the conversion cache: _convert_boolean is called       *)
(* through its lru_cache with one value after the other                    *)
(***************************************************************************)
CachedInputs ==
    {PyInt(<<"0">>), PyInt(<<"1">>), PyFloat(<<"1",".","0">>), PyTrue, PyFalse,
     PyStrVal(<<"t","r","u","e">>), PyStrVal(<<"o","f","f">>), PyStrVal(<<"1">>)}

\* self._convert_boolean(val), the cache in the way
CallCachedConvertBoolean(val) ==
    /\ \E r \in {ConvertBooleanCall(caches, val)} :
           /\ caches' = r.caches
           /\ fn_call' = [NoCall EXCEPT !.f = "_convert_boolean", !.arg = val,
                                         !.res = r.res, !.step = 1]
    /\ UNCHANGED <<procVars, clientVars, msgVars, egressVars, ctlVars>>

InitCache == InitSync

NextCache == \E val \in CachedInputs : CallCachedConvertBoolean(val)

SpecCache == InitCache /\ [][NextCache]_vars

(***************************************************************************)
(* Specification of the subscriptions: the connection comes and goes while *)
(* requests change the subscriptions of the configuration                  *)
(***************************************************************************)
SubscribeDocs ==
    << Obj(<< Member(F_subscriptions, Arr(<< PyStrVal(<<"x">>) >>)) >>),
       Obj(<< Member(F_subscriptions, Arr(<< PyStrVal(<<"t","/","#">>) >>)),
              Member(<<"n","o","f","i","e","l","d">>, PyInt(<<"1">>)) >>) >>

SubscribeMessages ==
    {TOPIC_CONFIG_SET, TOPIC_CONFIG_REMOVE}
        \X {Serialize(SubscribeDocs[i]) : i \in DOMAIN SubscribeDocs}

InitSubscribe == InitCtl

NextSubscribe ==
    \/ OnConnect
    \/ OnDisconnect
    \/ \E msg \in SubscribeMessages, failAt \in 0..MaxFailAt :
           OnConfigChange(msg[1], msg[2], failAt)

SpecSubscribe == InitSubscribe /\ [][NextSubscribe]_vars

(***************************************************************************)
(* Specification of the configuration service: requests on config/get,     *)
(* set, add, remove, update and restart, startup events, the connection    *)
(* after a restart                                                         *)
(***************************************************************************)
InitConfig ==
    /\ InitCtl
    /\ conn = FALSE

NextConfig ==
    \/ \E msg \in ConfigMessages : OnConfigGet(msg[1], msg[2])
    \/ \E msg \in ConfigMessages, failAt \in 0..MaxFailAt :
           OnConfigChange(msg[1], msg[2], failAt)
    \/ \E msg \in ConfigMessages : OnConfigRestart(msg[1], msg[2])
    \/ \E msg \in ConfigMessages, o \in StartupSyncOutcomes :
           OnStartupEvent(msg[1], msg[2], o[1], o[2], o[3])
    \/ OnConnect

SpecConfig == InitConfig /\ [][NextConfig]_vars

(***************************************************************************)
(* Specification of _convert_boolean on its own: a value is drawn, the     *)
(* function is called on it, and called again on what it returned          *)
(***************************************************************************)
\* str.upper(), to write the inputs
UpperChar(c) ==
    CASE c = "a" -> "A" [] c = "b" -> "B" [] c = "c" -> "C" [] c = "d" -> "D"
      [] c = "e" -> "E" [] c = "f" -> "F" [] c = "g" -> "G" [] c = "h" -> "H"
      [] c = "i" -> "I" [] c = "j" -> "J" [] c = "k" -> "K" [] c = "l" -> "L"
      [] c = "m" -> "M" [] c = "n" -> "N" [] c = "o" -> "O" [] c = "p" -> "P"
      [] c = "q" -> "Q" [] c = "r" -> "R" [] c = "s" -> "S" [] c = "t" -> "T"
      [] c = "u" -> "U" [] c = "v" -> "V" [] c = "w" -> "W" [] c = "x" -> "X"
      [] c = "y" -> "Y" [] c = "z" -> "Z"
      [] OTHER -> c

Upper(s) == [i \in DOMAIN s |-> UpperChar(s[i])]

Capitalize(s) == [i \in DOMAIN s |-> IF i = 1 THEN UpperChar(s[i]) ELSE s[i]]

\* the keys of BOOLEAN_MAPPING and texts that are no keys
Words ==
    { <<"t","r","u","e">>,
      <<"y","e","s">>,
      <<"o","n">>,
      <<"e","n","a","b","l","e","d">>,
      <<"e","n","a","b","l","e">>,
      <<"1">>,
      <<"c","h","e","c","k">>,
      <<"c","h","e","c","k","e","d">>,
      <<"s","e","l","e","c","t">>,
      <<"s","e","l","e","c","t","e","d">>,
      <<"f","a","l","s","e">>,
      <<"n","o">>,
      <<"o","f","f">>,
      <<"d","i","s","a","b","l","e","d">>,
      <<"d","i","s","a","b","l","e">>,
      <<"0">> }

OtherWords ==
    { <<>>,
      <<"m","a","y","b","e">>,
      <<"2">>,
      <<"t","r","u">>,
      <<"o"," ","n">>,
      <<"1","0">>,
      <<"o","f">>,
      <<"n","o","n","e">> }

Padding == { <<>>, <<" ">>, <<" ", " ">> }

\* every word in lower case, in upper case and capitalised, with white
\* space before and after it; and values that are no strings
ConvertBooleanInputs ==
    {PyStrVal(before \o word \o after) :
         before \in Padding, after \in Padding,
         word \in UNION {{w, Upper(w), Capitalize(w)} : w \in Words \cup OtherWords}}
        \cup {PyInt(<<"0">>), PyInt(<<"1">>), PyInt(<<"2">>), PyTrue, PyFalse, PyNone,
              PyFloat(<<"0",".","0">>), PyFloat(<<"1",".","0">>)}

\* self._convert_boolean(value)
CallConvertBoolean ==
    /\ fn_call.f = "_convert_boolean"
    /\ fn_call.step = 0
    /\ fn_call' = [fn_call EXCEPT !.res = ConvertBoolean(fn_call.arg), !.step = 1]
    /\ UNCHANGED <<pipelineVars, egressVars, ctlVars>>

\* self._convert_boolean(self._convert_boolean(value))
CallConvertBooleanAgain ==
    /\ fn_call.f = "_convert_boolean"
    /\ fn_call.step = 1
    /\ fn_call' = [fn_call EXCEPT !.again = ConvertBoolean(fn_call.res), !.step = 2]
    /\ UNCHANGED <<pipelineVars, egressVars, ctlVars>>

InitConvert ==
    /\ PipelineIdle
    /\ miniserver_max_parallel_connections = MaxParallel
    /\ sem_value = SemaphoreInit(miniserver_max_parallel_connections)
    /\ HttpIdle
    /\ WsIdle
    /\ config = AppConfig
    /\ config_file = NoFile
    /\ sync_call = NoSync
    /\ ctl = NoCtl
    /\ ui_process = "None"
    /\ ui_live = 0
    /\ headless = FALSE
    /\ fn_call \in {[NoCall EXCEPT !.f = "_convert_boolean", !.arg = v] :
                       v \in ConvertBooleanInputs}

NextConvert ==
    \/ CallConvertBoolean
    \/ CallConvertBooleanAgain

SpecConvert == InitConvert /\ [][NextConvert]_vars

(***************************************************************************)
(* Specification of normalize_topic on its own: a topic is drawn, the      *)
(* function is called on it, and called again on what it returned          *)
(***************************************************************************)
MaxTopicLen == 3

TopicChars == {"/", "%", "_", "a"}

RECURSIVE TextsUpTo(_, _)
TextsUpTo(chars, n) ==
    IF n = 0 THEN {<<>>}
    ELSE TextsUpTo(chars, n - 1)
             \cup {Append(t, c) : t \in {u \in TextsUpTo(chars, n - 1) : Len(u) = n - 1},
                                  c \in chars}

NormalizeInputs == TextsUpTo(TopicChars, MaxTopicLen)

\* self.normalize_topic(topic)
CallNormalizeTopic ==
    /\ fn_call.f = "normalize_topic"
    /\ fn_call.step = 0
    /\ fn_call' = [fn_call EXCEPT !.res = NormalizeTopic(fn_call.arg), !.step = 1]
    /\ UNCHANGED <<pipelineVars, egressVars, ctlVars>>

\* self.normalize_topic(self.normalize_topic(topic))
CallNormalizeTopicAgain ==
    /\ fn_call.f = "normalize_topic"
    /\ fn_call.step = 1
    /\ fn_call' = [fn_call EXCEPT !.again = NormalizeTopic(fn_call.res), !.step = 2]
    /\ UNCHANGED <<pipelineVars, egressVars, ctlVars>>

\* everything but the call record, as in a relay that has just been built
HarnessIdle ==
    /\ PipelineIdle
    /\ miniserver_max_parallel_connections = MaxParallel
    /\ sem_value = SemaphoreInit(miniserver_max_parallel_connections)
    /\ HttpIdle
    /\ WsIdle
    /\ config = AppConfig
    /\ config_file = NoFile
    /\ sync_call = NoSync
    /\ ctl = NoCtl
    /\ ui_process = "None"
    /\ ui_live = 0
    /\ headless = FALSE

InitNormalize ==
    /\ HarnessIdle
    /\ fn_call \in {[NoCall EXCEPT !.f = "normalize_topic", !.arg = t] :
                       t \in NormalizeInputs}

NextNormalize ==
    \/ CallNormalizeTopic
    \/ CallNormalizeTopicAgain

SpecNormalize == InitNormalize /\ [][NextNormalize]_vars

(***************************************************************************)
(* Specification of the UDP ingress: a datagram is drawn and handled       *)
(***************************************************************************)
MaxTokens == 4

UdpTokens == { <<"a","/","b">>, <<"x">>, <<"/">> }

RECURSIVE TokenLists(_)
TokenLists(n) ==
    IF n = 0 THEN {<<>>}
    ELSE TokenLists(n - 1)
             \cup {Append(l, t) : l \in {k \in TokenLists(n - 1) : Len(k) = n - 1},
                                  t \in UdpTokens}

\* what precedes the body: nothing, a command word, a word that only
\* starts like one
UdpPrefixes ==
    { <<>>,
      <<"p","u","b","l","i","s","h"," ">>,
      <<" ","R","e","t","a","i","n","\t"," ">>,
      <<"r","e","t","a","i","n","e","d"," ">> }

\* bodies with a brace
BraceBodies ==
    { <<"a","/","b"," "," ","{","x"," ","}">>,
      <<"a"," ","b","{","{","c">>,
      <<"{","x","}">>,
      <<"x","\t","{"," ">>,
      <<"a","/","b"," ","x","{">> }

\* a body of tokens with one blank between them, or with more whitespace
Spaced(tokens) ==
    {Join(tokens)}
        \cup (IF Len(tokens) >= 2
              THEN {Head(tokens) \o <<" ", "\t">> \o Join(Tail(tokens)) \o <<" ">>}
              ELSE {})

Datagrams ==
    {p \o b : p \in UdpPrefixes,
              b \in BraceBodies \cup UNION {Spaced(l) : l \in TokenLists(MaxTokens)}}

\* UDPProtocol.datagram_received -> handle_udp_message(msg, addr)
HandleUdpMessage ==
    /\ fn_call.f = "handle_udp_message"
    /\ fn_call.step = 0
    /\ fn_call' = [fn_call EXCEPT !.res = ParseUdpMessage(fn_call.arg),
                                  !.again = PublishCalls(ParseUdpMessage(fn_call.arg)),
                                  !.step = 1]
    /\ UNCHANGED <<pipelineVars, egressVars, ctlVars>>

InitUdp ==
    /\ HarnessIdle
    /\ fn_call \in {[NoCall EXCEPT !.f = "handle_udp_message", !.arg = d] : d \in Datagrams}

NextUdp == HandleUdpMessage

SpecUdp == InitUdp /\ [][NextUdp]_vars

(***************************************************************************)
(* Specification of the UI supervision: startui and stopui messages in any *)
(* order, with and without --headless, while the process may end on its    *)
(* own and the connection comes and goes                                   *)
(***************************************************************************)
UiPayloads == { <<>>, <<"o", "n">>, <<"1">>, <<"o", "f", "f">> }

InitUi ==
    /\ PipelineIdle
    /\ miniserver_max_parallel_connections = MaxParallel
    /\ sem_value = SemaphoreInit(miniserver_max_parallel_connections)
    /\ HttpIdle
    /\ WsIdle
    /\ config = AppConfig
    /\ config_file = NoFile
    /\ sync_call = NoSync
    /\ ctl = NoCtl
    /\ ui_process = "None"
    /\ ui_live = 0
    /\ headless \in BOOLEAN
    /\ fn_call = NoCall

NextUi ==
    \/ \E payload \in UiPayloads, spawned \in BOOLEAN :
           OnStartUi(TOPIC_START_UI, payload, spawned)
    \/ \E payload \in UiPayloads, outcome \in {"exits", "timeout", "error"} :
           OnStopUi(TOPIC_STOP_UI, payload, outcome)
    \/ UiExits
    \/ OnConnect
    \/ OnDisconnect

SpecUi == InitUi /\ [][NextUi]_vars

(***************************************************************************)
(* Specification of the gates under change: one message at a time is       *)
(* processed, with and without echoes, while the whitelist and the filters *)
(* are replaced whenever the coroutine is suspended                        *)
(***************************************************************************)
GatePayloads == { Serialize(JsonDocs[2]), Serialize(JsonDocs[3]), <<" ","O","F","F"," ">> }

InitGate ==
    /\ PipelineInit
    /\ miniserver_max_parallel_connections = MaxParallel
    /\ sem_value = SemaphoreInit(miniserver_max_parallel_connections)
    /\ HttpIdle
    /\ WsIdle
    /\ CtlIdle

NextGate ==
    \/ \E payload \in GatePayloads : ProcessDataStart(<<"a">>, payload)
    \/ ProcessDataResume
    \/ ProcessDataReturn
    \/ \E filters \in SubscriptionFilterLists : UpdateSubscriptionFilters(filters)
    \/ \E whitelist \in Whitelists : UpdateTopicWhitelist(whitelist)
    \/ \E filters \in DoNotForwardLists : UpdateDoNotForward(filters)

SpecGate == InitGate /\ [][NextGate]_vars

(***************************************************************************)
(* Specification of the MQTT client: connect, the connection coming and    *)
(* going, publish calls and arriving messages, in any order.  The second   *)
(* specification adds what the event loop and the premise of the liveness  *)
(* claim give: a sleep ends, and a broker that accepts again and again     *)
(* accepts an attempt.                                                     *)
(***************************************************************************)
\* the payloads that arrive: text, and bytes that are no UTF-8
ClientPayloads == { <<"o", "n">>, <<"a", InvalidByte, "b">> }

InitClient ==
    /\ HarnessIdle
    /\ fn_call = NoCall

NextClient ==
    \/ Connect
    \/ ConnectAttempt(TRUE)
    \/ ConnectAttempt(FALSE)
    \/ ConnectSleepDone
    \/ OnConnect
    \/ OnDisconnect
    \/ \E transport_raises \in BOOLEAN : Publish(transport_raises)
    \/ \E payload \in ClientPayloads, outcome \in {"completes", "raises"} :
           ClientOnMessage(payload, outcome)

SpecClient == InitClient /\ [][NextClient]_vars

SpecClientFair ==
    /\ InitClient
    /\ [][NextClient]_vars
    /\ WF_vars(ConnectSleepDone)
    /\ SF_vars(ConnectAttempt(TRUE))

(***************************************************************************)
(* Properties of the ingress pipeline                                      *)
(***************************************************************************)
TopicsOf(pairs) == [i \in DOMAIN pairs |-> pairs[i].topic]

Count(seq, x) == Cardinality({i \in DOMAIN seq : seq[i] = x})

\* the payload of the message handled last, as main hands it to process_data
Message == Decode(in_payload)

\* C1: when the compiled subscription filter matches the topic of the
\* message, process_data returns no pairs whatever the payload, nothing is
\* expanded or echoed, and no dispatch is issued for the message.
C1_FilteredTopicYieldsNothing ==
    handled /\ Matches(compiled_subscription_filter, in_topic)
        => /\ final_data = <<>>
           /\ processed_tuples = <<>>
           /\ published = <<>>
           /\ dispatched = <<>>

\* a message on a filtered topic whose payload is a JSON object with leaves
\* that the filter itself does not match
C1_Witness ==
    /\ handled
    /\ Matches(compiled_subscription_filter, in_topic)
    /\ expand_json
    /\ topic_whitelist = {}
    /\ \E p \in DOMAIN ExpandJson(in_topic, Message) :
           ~Matches(compiled_subscription_filter, ExpandJson(in_topic, Message)[p].topic)

\* the three gates as the specification states them, on the processor's
\* current configuration
PassesGates(path) ==
    /\ topic_whitelist = {} \/ NormalizeTopic(path) \in topic_whitelist
    /\ ~Matches(compiled_subscription_filter, path)
    /\ ~Matches(do_not_forward_patterns, path)

\* C2: process_data emits a pair produced by expansion if and only if its
\* path passes the whitelist gate (an empty whitelist passes everything),
\* the subscription filter and the do-not-forward filter; the pairs are
\* judged one by one, so a dropped leaf takes no sibling with it.
C2_EmittedIffPassesGates ==
    handled /\ ~raised
        => TopicsOf(final_data) = SelectSeq(TopicsOf(processed_tuples), PassesGates)

\* a JSON payload of which the whitelist drops one leaf and passes another
C2_Witness ==
    /\ handled /\ ~raised
    /\ topic_whitelist # {}
    /\ final_data # <<>>
    /\ \E i \in DOMAIN processed_tuples :
           /\ NormalizeTopic(processed_tuples[i].topic) \notin topic_whitelist
           /\ ~Matches(compiled_subscription_filter, processed_tuples[i].topic)
           /\ ~Matches(do_not_forward_patterns, processed_tuples[i].topic)

\* the leaves of a JSON object, document order, each with the topic followed
\* by its chain of keys and indices, every link joined by '/'
RECURSIVE Leaves(_, _)
Leaves(members, path) ==
    IF members = <<>> THEN <<>>
    ELSE LET c == Head(members).c
             p == path \o <<"/">> \o Head(members).k
             here == CASE c.t = "obj" -> Leaves(c.v, p)
                       [] c.t = "arr" -> Leaves(EnumDict(c.v), p)
                       [] OTHER -> << Pair(p, c) >>
         IN  here \o Leaves(Tail(members), path)

\* C3: with expand_json on, a payload that parses to a JSON object expands
\* to exactly one pair per leaf, with path topic + '/' + the leaf's chain of
\* keys and indices joined by '/'; an object without leaves gives no pair.
C3_OnePairPerLeaf ==
    ( /\ handled /\ expand_json
      /\ ~Matches(compiled_subscription_filter, in_topic)
      /\ Loads(Message).ok /\ Loads(Message).val.t = "obj" )
        => TopicsOf(processed_tuples) = TopicsOf(Leaves(Loads(Message).val.v, in_topic))

\* C4: processing a message raises no exception to the caller of
\* process_data, whatever the topic, the payload and the configuration.
C4_ProcessNeverRaises == handled => ~raised

\* C9: every pair that process_data emitted is dispatched exactly once:
\* as many send_to_miniserver tasks are created for it as it occurs in the
\* result.
C9_OneDispatchPerPair ==
    handled /\ ~raised
        => \A i \in DOMAIN final_data :
               Count(dispatched, final_data[i]) = Count(final_data, final_data[i])

InFlight == {t \in TaskIds : http_task[t].pc = "inflight"}

\* the tasks that hold a permit: with a GET in flight, or handed the permit
\* by a release and not yet resumed
Holders == {t \in TaskIds : http_task[t].pc \in {"inflight", "woken", "woken_cancelled"}}

\* C5: over all calls and all their tasks, the number of GET requests in
\* flight at the same time never exceeds miniserver_max_parallel_connections.
C5_InFlightBounded == Cardinality(InFlight) <= miniserver_max_parallel_connections

\* the cap binds: as many GETs in flight as permits, from two calls, and a
\* further task waiting for the semaphore
C5_Witness ==
    /\ Cardinality(InFlight) = miniserver_max_parallel_connections
    /\ \E t1 \in InFlight, t2 \in InFlight : t1[1] # t2[1]
    /\ \E t \in TaskIds : http_task[t].pc = "waiting"

\* C6: a forward that entered the semaphore leaves it exactly once whatever
\* the outcome of its GET; the free permits and the permits held add up to
\* the configured capacity, so that with no forward holding a permit all
\* permits are free.
C6_ReleasedExactlyOnce ==
    /\ \A t \in TaskIds :
           /\ http_task[t].acquired <= 1
           /\ http_task[t].released <= http_task[t].acquired
           /\ http_task[t].pc = "inflight"
                  => http_task[t].acquired = 1 /\ http_task[t].released = 0
           /\ http_task[t].pc = "done" => http_task[t].released = http_task[t].acquired
    /\ sem_value + Cardinality(Holders) = miniserver_max_parallel_connections
    /\ Holders = {} => sem_value = miniserver_max_parallel_connections

\* every forward has ended, one by a cancelled GET, one by a timeout, and
\* one was cancelled before it got a permit
C6_Witness ==
    /\ Holders = {}
    /\ \A t \in Active : http_task[t].pc = "done"
    /\ \E t1 \in Active, t2 \in Active, t3 \in Active :
           /\ http_task[t1].code = 499 /\ http_task[t1].released = 1
           /\ http_task[t2].code = 408 /\ http_task[t2].released = 1
           /\ http_task[t3].code = 499 /\ http_task[t3].acquired = 0

\* C7: at most one connection attempt is in progress at any time; a sender
\* that called connect() while another owns the attempt has started none.
C7_SingleConnectAttempt ==
    /\ Cardinality({s \in Senders : ws_sender[s].pc = "connecting"}) <= 1
    /\ \A s \in Senders : ws_sender[s].pc = "connecting" => ws_guard = s
    /\ \A s \in Senders : ws_sender[s].pc = "connecting" => ws_state = "connecting"

\* one sender's attempt is in progress while another sender waits in connect()
C7_Witness ==
    \E s1 \in Senders, s2 \in Senders :
        /\ s1 # s2
        /\ ws_sender[s1].pc = "connecting"
        /\ ws_sender[s2].pc = "connect"

ConfigWhitelist == DictGet(config.topics, F_topic_whitelist)

\* the operation that ran last is a call of handle_miniserver_sync
SyncRanLast == sync_call.ran /\ ~handled

\* C11: when the synchronisation failed at some step, handle_miniserver_sync
\* raises nothing, and the whitelist of the configuration and the whitelist
\* of the processor are the ones in effect before the attempt.
C11_FailedSyncKeepsWhitelist ==
    SyncRanLast /\ sync_call.failed
        => /\ ~sync_call.raised
           /\ ConfigWhitelist = sync_call.before_config
           /\ topic_whitelist = sync_call.before_processor

\* the pairs of expansion whose normalized topic the whitelist admits
Admitted(tuples, whitelist) ==
    SelectSeq(tuples, LAMBDA p : whitelist = {} \/ NormalizeTopic(p.topic) \in whitelist)

\* C12: after a successful synchronisation the whitelist of the
\* configuration and the whitelist of the processor hold exactly the titles
\* that the sync returned, and a message processed afterwards yields the
\* pairs that this whitelist admits.
C12_SyncReplacesWhitelist ==
    sync_call.ran /\ ~sync_call.failed
        => /\ WhitelistOf(ConfigWhitelist) = WhitelistOf(sync_call.result.titles)
           /\ topic_whitelist = WhitelistOf(sync_call.result.titles)
           /\ handled =>
                  TopicsOf(final_data)
                      = TopicsOf(Admitted(processed_tuples, WhitelistOf(sync_call.result.titles)))

\* a sync replaced the whitelist {a_b} by {c, a_b} and the topic c, dropped
\* before, is emitted
C12_Witness ==
    /\ sync_call.ran /\ ~sync_call.failed
    /\ sync_call.before_processor = {TitleAB.v}
    /\ topic_whitelist = {TitleAB.v, TitleC.v}
    /\ handled /\ in_topic = <<"c">> /\ final_data # <<>>

\* C13: right after a replacement of the whitelist the membership cache is
\* empty, every entry of the cache is the membership of its normalized topic
\* in the current whitelist, and so is the answer of is_in_whitelist.
C13_WhitelistCacheConsistent ==
    /\ SyncRanLast /\ ~sync_call.raised => caches.wl = <<>>
    /\ \A i \in DOMAIN caches.wl :
           caches.wl[i].r = (NormalizeTopic(caches.wl[i].k) \in topic_whitelist)
    /\ \A t \in SyncTopics :
           IsInWhitelistCall(caches, topic_whitelist, t).res
               = (NormalizeTopic(t) \in topic_whitelist)

\* the whitelist was replaced while the cache held an answer that the new
\* whitelist reverses, and the topic was looked up again
C13_Witness ==
    /\ sync_call.ran /\ ~sync_call.failed
    /\ <<"c">> \notin sync_call.before_processor
    /\ sync_call.before_processor # {}
    /\ \E i \in DOMAIN caches.wl : caches.wl[i].k = <<"c">> /\ caches.wl[i].r


(***************************************************************************)
(* Properties of the control plane                                         *)
(***************************************************************************)
\* C14: a message on a reserved control topic (config/get, set, add,
\* remove, update, restart, miniserverevent/startup, startui, stopui under
\* base_topic) is never passed to the pipeline and never produces a
\* dispatch; a message on any other topic is passed to the pipeline: the
\* router takes it for a control message only when its topic is reserved.
C14_ReservedTopicsBypassPipeline ==
    /\ handled => in_topic \notin ReservedTopics
    /\ ctl.ran => /\ ctl.topic \in ReservedTopics
                  /\ ~handled
                  /\ processed_tuples = <<>>
                  /\ final_data = <<>>
                  /\ dispatched = <<>>

\* a stopui message went to stop_ui, which reported on ui/status
C14_Witness ==
    /\ ctl.ran
    /\ ctl.topic = TOPIC_STOP_UI
    /\ ctl.published # <<>>
    /\ ~handled


\* the messages of the last control operation on config/response
Responses ==
    {ctl.published[i].body : i \in {j \in DOMAIN ctl.published :
                                        /\ ctl.published[j].sub = "config/"
                                        /\ ctl.published[j].name = LastSegment(TOPIC_CONFIG_RESPONSE)}}

\* values that credentials take
Credentials == {PyNone, PyStrVal(<<>>), PyStrVal(<<"x">>)}

\* the configuration with other credentials
WithCredentials(cfg, user, password, miniserver_user, miniserver_pass) ==
    [cfg EXCEPT !.broker = DictSet(DictSet(@, F_user, user), F_password, password),
                !.miniserver = DictSet(DictSet(@, F_miniserver_user, miniserver_user),
                                       F_miniserver_pass, miniserver_pass)]

\* the members of a section of a response
SectionIn(doc, section) == DictGet(doc.v, section).v

\* C15: what is published on config/response never contains the broker
\* user, the broker password, the miniserver user or the miniserver
\* password: the document has none of these fields, and it is the answer
\* that every configuration gets which differs from the current one in
\* these four values only.
C15_ResponseHidesCredentials ==
    /\ \A body \in Responses :
           LET doc == Loads(body)
           IN  /\ doc.ok
               /\ doc.val.t = "obj"
               /\ ~DictHas(SectionIn(doc.val, S_broker), F_user)
               /\ ~DictHas(SectionIn(doc.val, S_broker), F_password)
               /\ ~DictHas(SectionIn(doc.val, S_miniserver), F_miniserver_user)
               /\ ~DictHas(SectionIn(doc.val, S_miniserver), F_miniserver_pass)
               /\ \A u \in Credentials, pw \in Credentials,
                     mu \in Credentials, mp \in Credentials :
                       Dumps(ToDict(GetSafeConfig(WithCredentials(ctl.before, u, pw, mu, mp))))
                           = [ok |-> TRUE, text |-> body]

\* a configuration with credentials was asked for and the answer published
C15_Witness ==
    /\ ctl.ran
    /\ ctl.topic = TOPIC_CONFIG_GET
    /\ Responses # {}
    /\ DictGet(ctl.before.broker, F_user) = PyStrVal(<<"u">>)
    /\ DictGet(ctl.before.broker, F_password) = PyStrVal(<<"p">>)
    /\ DictGet(ctl.before.miniserver, F_miniserver_user) = PyStrVal(<<"m">>)
    /\ DictGet(ctl.before.miniserver, F_miniserver_pass) = PyStrVal(<<"s">>)


\* C16: when the body of a message on config/set, config/add or
\* config/remove is not valid JSON, the error is logged and does not leave
\* the handler, the configuration is as before in memory and in the file,
\* and no restart is performed.
C16_InvalidJsonChangesNothing ==
    /\ ctl.ran
    /\ ctl.topic \in {TOPIC_CONFIG_SET, TOPIC_CONFIG_ADD, TOPIC_CONFIG_REMOVE}
    /\ ~Loads(ctl.message).ok
    => /\ ctl.error = "JSONDecodeError"
       /\ ctl.logged
       /\ ~ctl.raised
       /\ ~ctl.restarted
       /\ ctl.updated = ctl.before
       /\ config = ctl.before
       /\ config_file = ctl.before_file

\* malformed JSON came in on config/add while the configuration held a
\* whitelist and the file existed
C16_Witness ==
    /\ ctl.ran
    /\ ctl.topic = TOPIC_CONFIG_ADD
    /\ ctl.message = <<"{", Quote, "k", Quote, ":", "1">>
    /\ ctl.error = "JSONDecodeError"
    /\ config_file.exists
    /\ WhitelistOf(DictGet(config.topics, F_topic_whitelist)) # {}


\* the elements of a list or a set, and of the value given in a request
Elements(value) == IF value.t = "arr" THEN Range(value.v) ELSE value.v

Given(value) == IF value.t = "arr" THEN Range(value.v) ELSE {value}

\* the request of the last control operation, when its body is a JSON
\* object that names a list- or set-typed field first
ListRequest ==
    /\ ctl.ran
    /\ ctl.topic \in {TOPIC_CONFIG_SET, TOPIC_CONFIG_ADD, TOPIC_CONFIG_REMOVE}
    /\ Loads(ctl.message).ok
    /\ Loads(ctl.message).val.t = "obj"
    /\ Loads(ctl.message).val.v # <<>>
    /\ KnownField(Head(Loads(ctl.message).val.v).k)
    /\ DictGet(ctl.before[SectionOf(Head(Loads(ctl.message).val.v).k)],
               Head(Loads(ctl.message).val.v).k).t \in {"arr", "set"}

FieldIn(cfg, field_name) == DictGet(cfg[SectionOf(field_name)], field_name)

\* C17: for a list- or set-typed field, an update in mode set leaves the
\* field with exactly the given elements, mode add with the previous
\* elements plus the given ones, mode remove with the previous elements
\* that are not among the given ones.
C17_ListModes ==
    ListRequest =>
        LET member == Head(Loads(ctl.message).val.v)
            previous == FieldIn(ctl.before, member.k)
            updated == FieldIn(ctl.updated, member.k)
            list_mode == ListMode(LastSegment(ctl.topic))
        IN  /\ list_mode = "set" => Elements(updated) = Given(member.c)
            /\ list_mode = "add" => Elements(updated) = Elements(previous) \cup Given(member.c)
            /\ list_mode = "remove" => Elements(updated) = Elements(previous) \ Given(member.c)

\* config/add put a title next to the one the whitelist held
C17_Witness ==
    /\ ListRequest
    /\ ctl.topic = TOPIC_CONFIG_ADD
    /\ Elements(FieldIn(ctl.before, F_topic_whitelist)) = {TitleAB}
    /\ Elements(FieldIn(ctl.updated, F_topic_whitelist)) = {TitleAB, TitleC}
    /\ ctl.restarted


(***************************************************************************)
(* Properties of expansion and canonicalisation                            *)
(***************************************************************************)
\* the message handled last reached the expansion step
Expanded == handled /\ ~FirstPassDrops(Proc, in_topic)

\* C18: when expand_json is disabled, or the payload does not parse as
\* JSON, or its JSON root is not an object, expansion yields exactly one
\* pair: the topic and the payload of the message, unchanged.
C18_UnexpandedIsOnePair ==
    /\ Expanded
    /\ \/ ~expand_json
       \/ ~Loads(Message).ok
       \/ Loads(Message).val.t # "obj"
    => processed_tuples = << Pair(in_topic, PyStrVal(Message)) >>

\* with expand_json disabled a JSON object with several leaves stayed one
\* pair
C18_Witness ==
    /\ Expanded
    /\ ~expand_json
    /\ Loads(Message).ok
    /\ Loads(Message).val.t = "obj"
    /\ Len(FlattenDict(Loads(Message).val.v, <<>>)) > 1
    /\ processed_tuples = << Pair(in_topic, PyStrVal(Message)) >>


\* the texts that the lookup table sends to "1" and to "0"
TruthyTexts ==
    { <<"t","r","u","e">>,
      <<"y","e","s">>,
      <<"o","n">>,
      <<"e","n","a","b","l","e","d">>,
      <<"e","n","a","b","l","e">>,
      <<"1">>,
      <<"c","h","e","c","k">>,
      <<"c","h","e","c","k","e","d">>,
      <<"s","e","l","e","c","t">>,
      <<"s","e","l","e","c","t","e","d">> }

FalsyTexts ==
    { <<"f","a","l","s","e">>,
      <<"n","o">>,
      <<"o","f","f">>,
      <<"d","i","s","a","b","l","e","d">>,
      <<"d","i","s","a","b","l","e">>,
      <<"0">> }

\* C19: _convert_boolean returns "1" when its input, a string, after
\* trimming surrounding whitespace and lowercasing, is one of true, yes,
\* on, enabled, enable, 1, check, checked, select, selected; "0" when it is
\* one of false, no, off, disabled, disable, 0; and every other string, the
\* empty one included, exactly as given.
C19_ConvertBooleanTable ==
    fn_call.step >= 1 /\ fn_call.arg.t = "str" =>
        LET text == Lower(Strip(fn_call.arg.v))
        IN  /\ text \in TruthyTexts => fn_call.res = PyStrVal(<<"1">>)
            /\ text \in FalsyTexts => fn_call.res = PyStrVal(<<"0">>)
            /\ text \notin TruthyTexts \cup FalsyTexts => fn_call.res = fn_call.arg

\* "  Selected " was given and "1" returned
C19_Witness ==
    /\ fn_call.step >= 1
    /\ fn_call.arg = PyStrVal(<<" "," ","S","e","l","e","c","t","e","d"," ">>)
    /\ fn_call.res = PyStrVal(<<"1">>)

\* C20: _convert_boolean is idempotent: for every value v,
\* _convert_boolean(_convert_boolean(v)) equals _convert_boolean(v).
C20_ConvertBooleanIdempotent ==
    fn_call.step = 2 => fn_call.again = fn_call.res

\* " NO" became "0", and "0" stayed "0"
C20_Witness ==
    /\ fn_call.step = 2
    /\ fn_call.arg = PyStrVal(<<" ","N","O">>)
    /\ fn_call.res = PyStrVal(<<"0">>)
    /\ fn_call.again = PyStrVal(<<"0">>)

\* C21: normalize_topic replaces every '/' and every '%' by '_' and leaves
\* every other character unchanged; its result holds neither character,
\* and normalizing the result again gives the result.
C21_NormalizeReplacesAndIdempotent ==
    /\ fn_call.f = "normalize_topic" /\ fn_call.step >= 1
           => /\ Len(fn_call.res) = Len(fn_call.arg)
              /\ \A i \in DOMAIN fn_call.arg :
                     fn_call.res[i] = IF fn_call.arg[i] \in {"/", "%"} THEN "_"
                                      ELSE fn_call.arg[i]
              /\ "/" \notin Range(fn_call.res)
              /\ "%" \notin Range(fn_call.res)
    /\ fn_call.f = "normalize_topic" /\ fn_call.step = 2
           => fn_call.again = fn_call.res

\* "a/%" became "a__", and "a__" stayed "a__"
C21_Witness ==
    /\ fn_call.f = "normalize_topic" /\ fn_call.step = 2
    /\ fn_call.arg = <<"a", "/", "%">>
    /\ fn_call.res = <<"a", "_", "_">>
    /\ fn_call.again = <<"a", "_", "_">>

(***************************************************************************)
(* Properties of the result codes and the forwarded-topic echo             *)
(***************************************************************************)
\* the result code by kind of outcome: the status of a response, 408 for a
\* timeout, 499 for a cancellation, 503 for an OS or connection error, 500
\* for any other error
ResultCode(outcome) ==
    CASE outcome.kind = "status" -> outcome.status
      [] outcome.kind = "raise" /\ "TimeoutError" \in outcome.classes -> 408
      [] outcome.kind = "raise" /\ "CancelledError" \in outcome.classes -> 499
      [] outcome.kind = "raise" /\ "OSError" \in outcome.classes
             /\ "TimeoutError" \notin outcome.classes -> 503
      [] OTHER -> 500

\* a step of the egress: the task whose GET came to an outcome records the
\* code of that outcome, for itself and in the results of its call; a code
\* is recorded only by a task that ends with it; a call returns only when
\* every forward of its batch has ended
RecordsOutcome ==
    /\ \A t \in TaskIds, outcome \in HttpOutcomes :
           Complete(t, outcome)
               => /\ http_task'[t].code = ResultCode(outcome)
                  /\ DictGet(http_results'[t[1]], PairOf(t).topic) = ResultCode(outcome)
    /\ \A t \in TaskIds :
           http_task'[t].code # http_task[t].code
               => \/ http_task[t].pc # "done" /\ http_task'[t].pc = "done"
                  \/ http_task'[t] = IdleTask
    /\ \A c \in HttpCalls :
           http_data[c] # <<>> /\ http_data'[c] = <<>>
               => \A i \in DOMAIN http_data[c] : http_task[<<c, i>>].pc = "done"

\* every forward that has ended issued one GET
ExactlyOneGet ==
    \A t \in TaskIds :
        /\ http_task[t].acquired <= 1
        /\ http_task[t].pc = "done" => http_task[t].acquired = 1

\* every forward that has ended issued one GET, or none when it was
\* cancelled before it held a permit, and then it recorded 499
OneGetUnlessCancelledWaiting ==
    \A t \in TaskIds :
        /\ http_task[t].acquired <= 1
        /\ http_task[t].pc = "done"
               => \/ http_task[t].acquired = 1
                  \/ http_task[t].acquired = 0 /\ http_task[t].code = 499

C23_OneEchoPerDispatchedPair ==
    forwarded.ran
        => IF forwarded.enabled
           THEN /\ Len(forwarded.calls) = Len(forwarded.data)
                /\ \A i \in DOMAIN forwarded.data :
                       forwarded.calls[i]
                           = ForwardedEcho(forwarded.data[i].topic,
                                           forwarded.data[i].value,
                                           forwarded.codes[i])
           ELSE forwarded.calls = <<>>

(***************************************************************************)
(* Properties of the UDP ingress                                           *)
(***************************************************************************)
\* the datagram that was handled, in tokens
UdpTokensIn == Split(fn_call.arg)

UdpHandled == fn_call.f = "handle_udp_message" /\ fn_call.step = 1

\* the first token is a command word
HasCommand ==
    UdpTokensIn # <<>> /\ Lower(UdpTokensIn[1]) \in {CmdPublish, CmdRetain}

\* the body: the datagram without surrounding whitespace and without its
\* command word, and the tokens of the body
UdpBody ==
    IF HasCommand
    THEN Strip(Slice(LStrip(fn_call.arg), Len(UdpTokensIn[1]) + 1, Len(LStrip(fn_call.arg))))
    ELSE Strip(fn_call.arg)

BodyTokens == IF HasCommand THEN Tail(UdpTokensIn) ELSE UdpTokensIn

\* the cases in which the parser rejects a datagram
Rejected ==
    \/ UdpTokensIn = <<>>
    \/ HasCommand /\ Len(UdpTokensIn) = 1
    \/ "{" \notin Range(UdpBody) /\ Len(BodyTokens) < 2
    \/ "{" \in Range(UdpBody) /\ Head(UdpBody) = "{"

\* C24: a datagram leads to at most one publish: none when the parser
\* rejects it (empty input, a command word with nothing after it, fewer than
\* two tokens, an empty topic), otherwise exactly one, with the parsed topic
\* and payload, and with retain set exactly when the first token is retain
\* in any case of letters.
C24_AtMostOnePublishPerDatagram ==
    UdpHandled
        => /\ Len(fn_call.again) <= 1
           /\ Rejected <=> ~fn_call.res.ok
           /\ Rejected => fn_call.again = <<>>
           /\ ~Rejected
                  => /\ Len(fn_call.again) = 1
                     /\ fn_call.again[1].topic = fn_call.res.topic
                     /\ fn_call.again[1].message = fn_call.res.payload
                     /\ fn_call.again[1].retain = (Lower(UdpTokensIn[1]) = CmdRetain)

\* " Retain<tab> a/b x" was published once, retained, as a/b = x
C24_Witness ==
    /\ UdpHandled
    /\ fn_call.arg = <<" ","R","e","t","a","i","n","\t"," ","a","/","b"," ","x">>
    /\ fn_call.again = << [topic |-> <<"a","/","b">>, message |-> <<"x">>, retain |-> TRUE] >>

Qualifies(tokens, i) ==
    \/ "/" \in Range(tokens[i])
    \/ "/" \in Range(tokens[i - 1]) /\ "/" \in Range(tokens[i + 1])

\* C26: for a body without '{' and with more than two tokens, the topic is
\* the first token followed by each next token as long as that token
\* qualifies (it holds '/' or both of its neighbours do), up to the first
\* token that does not qualify or to the last token; the payload is the
\* remaining tokens and holds the last token; topic tokens and payload
\* tokens together are the tokens of the body, in order.
C26_GreedyTopic ==
    UdpHandled /\ "{" \notin Range(UdpBody) /\ Len(BodyTokens) > 2
        => /\ fn_call.res.ok
           /\ LET topic == Split(fn_call.res.topic)
                  payload == Split(fn_call.res.payload)
              IN  /\ topic \o payload = BodyTokens
                  /\ Len(topic) >= 1
                  /\ Len(payload) >= 1
                  /\ \A i \in 2..Len(topic) : Qualifies(BodyTokens, i)
                  /\ Len(topic) + 1 < Len(BodyTokens)
                         => ~Qualifies(BodyTokens, Len(topic) + 1)

\* in "a/b x / x" the second token lies between two tokens with a slash:
\* the topic is "a/b x /" and the payload the last token
C26_Witness ==
    /\ UdpHandled
    /\ fn_call.arg = <<"a","/","b"," ","x"," ","/"," ","x">>
    /\ fn_call.res = Parsed(CmdPublish, <<"a","/","b"," ","x"," ","/">>, <<"x">>)

(***************************************************************************)
(* Properties of the startup and of the client                             *)
(***************************************************************************)
SyncFlag == DictGet(config.miniserver, F_sync_with_miniserver)

\* C27: at startup and on each miniserverevent/startup message a whitelist
\* synchronisation is run if and only if sync_with_miniserver is enabled;
\* when it is disabled nothing is attempted and the whitelist of the
\* configuration and of the processor stay as they were.
C27_SyncIffEnabled ==
    /\ ctl.ran /\ ctl.topic = TOPIC_MINISERVER_STARTUP_EVENT => sync_call.asked
    /\ sync_call.asked
           => /\ sync_call.ran <=> SyncFlag = PyTrue
              /\ SyncFlag # PyTrue
                     => /\ ConfigWhitelist = sync_call.before_config
                        /\ topic_whitelist = sync_call.before_processor
                        /\ ~sync_call.failed /\ ~sync_call.raised

\* the synchronisation is turned off, a whitelist is configured, and a
\* startup event came: nothing was attempted
C27_Witness ==
    /\ ctl.ran /\ ctl.topic = TOPIC_MINISERVER_STARTUP_EVENT
    /\ SyncFlag = PyFalse
    /\ sync_call.asked /\ ~sync_call.ran
    /\ topic_whitelist # {}

\* C28: MQTTClient.publish hands a message to the transport only while the
\* client is connected, after an on_connect and before the next
\* on_disconnect; a publish attempted while disconnected returns at the
\* warning without raising, and its message is not kept for later: it
\* never reaches the transport, whatever connects afterwards.
C28_PublishOnlyWhileConnected ==
    /\ client.pub.ran
           => /\ client.pub.handed => client.pub.link
              /\ ~client.pub.link
                     => /\ ~client.pub.handed
                        /\ client.pub.warned
                        /\ ~client.pub.raised
                        /\ client.pub.id \in client.dropped
    /\ \A id \in client.dropped : Handed(id) \notin client.sent
    /\ client.sent # {} => client.link

\* a publish was attempted while disconnected, and the client has connected
\* since: the transport was handed the status and nothing else
C28_Witness ==
    /\ client.pub.ran /\ ~client.pub.link /\ client.pub.warned
    /\ client.dropped = {1, 2}
    /\ conn /\ client.link
    /\ client.sent = {StatusConnected}

ConnectCounts ==
    client.failures < MaxFailures
        => CASE client.phase = "attempting"
                    -> /\ client.attempts = client.failures
                       /\ client.slept = max_reconnect_delay * client.failures
             [] client.phase = "sleeping"
                    -> /\ client.attempts = client.failures
                       /\ client.slept = max_reconnect_delay * (client.failures - 1)
             [] client.phase = "returned"
                    -> /\ client.attempts = client.failures + 1
                       /\ client.slept = max_reconnect_delay * client.failures
             [] OTHER -> TRUE

\* C29: MQTTClient.connect makes a further attempt after every attempt that
\* failed, having slept 15 seconds before it, and returns only after an
\* attempt that succeeded; when the broker accepts again and again, a
\* connect that is under way returns.
C29_ConnectRetriesUntilAccepted ==
    /\ [](client.phase = "returned" => client.accepted)
    /\ [](client.phase = "sleeping" => ~client.accepted)
    /\ []ConnectCounts
    /\ (client.phase \in {"attempting", "sleeping"} ~> client.phase = "returned")

\* connect returned at its second attempt, after one sleep
C29_Witness ==
    /\ client.phase = "returned" /\ client.accepted
    /\ client.attempts = 2 /\ client.failures = 1
    /\ client.slept = max_reconnect_delay

\* C30: MQTTClient._on_message never raises; it returns SUCCESS when the
\* callback completed and UNSPECIFIED_ERROR when the callback raised, and
\* every message that arrives is handed to the callback, also after a
\* message on which the callback raised.
C30_OnMessageNeverRaises ==
    /\ ~client.escaped
    /\ Len(client.outcomes) = client.arrived
    /\ Len(client.rets) = client.arrived
    /\ \A i \in DOMAIN client.rets :
           client.rets[i] = IF client.outcomes[i] = "completes" THEN "SUCCESS"
                            ELSE "UNSPECIFIED_ERROR"

\* the callback raised on a message and completed on the next one
C30_Witness ==
    /\ client.arrived = 2
    /\ client.outcomes = <<"raises", "completes">>
    /\ client.rets = <<"UNSPECIFIED_ERROR", "SUCCESS">>

\* C31: the client hands every payload to the message callback exactly
\* as it was received, byte for byte, also when it is not valid UTF-8.
C31_PayloadDeliveredAsReceived ==
    client.arrived > 0 => client.delivered = client.received

\* C32: over any sequence of startui and stopui messages at most one UI
\* process is alive, and it is the one the relay holds; startui spawns only
\* when the relay holds no live process, stopui terminates or kills only a
\* process that is held, and after it did, the relay holds none.
C32_AtMostOneLiveUi ==
    /\ ui_live <= 1
    /\ ui_process = "alive" <=> ui_live = 1
    /\ ctl.ui_action = "spawned"
           => ctl.topic = TOPIC_START_UI /\ ctl.ui_before \in {"None", "exited"}
    /\ ctl.ui_action \in {"terminated", "killed"}
           => /\ ctl.topic = TOPIC_STOP_UI
              /\ ctl.ui_before # "None"
              /\ ui_process = "None"
    /\ ctl.ran /\ ctl.topic = TOPIC_STOP_UI /\ ctl.ui_before = "None"
           => ctl.ui_action = "none" /\ ui_process = "None"
    /\ ctl.ran /\ ctl.topic = TOPIC_START_UI /\ ctl.ui_before = "alive"
           => ctl.ui_action = "none"

\* a live process did not end within the five seconds and was killed
C32_Witness ==
    /\ ctl.ran /\ ctl.topic = TOPIC_STOP_UI
    /\ ctl.ui_before = "alive" /\ ctl.ui_action = "killed"
    /\ ui_process = "None" /\ ui_live = 0

\* C33: over the WebSocket session a command whose send failed is recorded
\* with code 500 and the call does not raise on it: the remaining pairs are
\* attempted and the call returns its results; a call that finds the
\* session not connected connects before it sends.
C33_FailedSendIsRecorded ==
    \A s \in Senders :
        LET me == ws_sender[s]
        IN  /\ me.failed \subseteq 1..me.calls
            /\ \A i \in 1..me.calls :
                   (\A j \in (i+1)..me.calls : me.data[j].topic # me.data[i].topic)
                       => DictGet(me.results, me.data[i].topic)
                              = IF i \in me.failed THEN 500 ELSE 200
            /\ me.pc = "done" => me.calls = Len(me.data)
            /\ me.pc = "raised" => me.connectFailed /\ me.calls = 0
            /\ me.calls > 0 /\ ~me.sawConnected => me.connectOk

\* the first command of a call failed and the connection was gone, the
\* call went on and its second command went out, after another call had
\* found the session disconnected and connected it
C33_Witness ==
    \E s1 \in Senders, s2 \in Senders :
        /\ s1 # s2
        /\ ws_sender[s1].pc = "done"
        /\ ws_sender[s1].failed = {1} /\ ws_sender[s1].calls = 2
        /\ ws_sender[s2].connectOk /\ ~ws_sender[s2].sawConnected
        /\ ws_sender[s2].sentIn # {}

\* what C34 asks of a handled message: an echo was attempted for every
\* pair of the expansion, and the pairs that pass the gates were emitted
PipelineCompleted ==
    /\ publish_processed_topics /\ conn => Len(published) = Len(processed_tuples)
    /\ TopicsOf(final_data) = SelectSeq(TopicsOf(processed_tuples), PassesGates)

\* C34: with publish_processed_topics on, a processed-topic echo whose
\* publication fails does not interrupt the pipeline: the remaining echoes
\* are attempted, and every pair is gated and, when it passes, emitted.
C34_EchoFailureDoesNotInterrupt ==
    handled /\ ~Matches(compiled_subscription_filter, in_topic) => PipelineCompleted

\* the same holds of every message whose echoes raised nothing
CompletesUnlessEchoRaises ==
    handled /\ ~raised /\ ~Matches(compiled_subscription_filter, in_topic)
        => PipelineCompleted

(***************************************************************************)
(* Properties of the gates under change                                    *)
(***************************************************************************)
\* a path passes the gates of the filter state proc
PassesUnder(proc, path) ==
    /\ proc.wl = {} \/ NormalizeTopic(path) \in proc.wl
    /\ ~Matches(proc.sub, path)
    /\ ~Matches(proc.dnf, path)

\* C35: all pairs of one message are judged against one whitelist and one
\* set of filters, whatever is replaced while the message is processed:
\* the pairs emitted are those that pass the gates of that one state.
C35_OneSnapshotPerMessage ==
    fn_call.f = "process_data"
        => /\ \A i \in DOMAIN fn_call.judged, j \in DOMAIN fn_call.judged :
                  fn_call.judged[i].proc = fn_call.judged[j].proc
           /\ fn_call.pc = "done" /\ fn_call.judged # <<>>
                  => /\ TopicsOf(fn_call.judged) = TopicsOf(fn_call.tuples)
                     /\ TopicsOf(fn_call.final)
                            = SelectSeq(TopicsOf(fn_call.tuples),
                                        LAMBDA path : PassesUnder(fn_call.judged[1].proc, path))

\* the whitelist was replaced while the message waited at an echo: both
\* pairs were judged against the new one, which passes one of them
C35_Witness ==
    /\ fn_call.f = "process_data" /\ fn_call.pc = "done"
    /\ Len(fn_call.judged) = 2
    /\ fn_call.judged[1].proc.wl # fn_call.start.wl
    /\ Len(fn_call.final) = 1

\* the archive of the last synchronisation fails one of the three checks
ArchiveRejected(archive) ==
    \/ archive.header # LoxCCMagic
    \/ /\ Decompressed(archive).ok
       /\ \/ archive.checksum # Crc32(Decompressed(archive).bytes)
          \/ Len(Decompressed(archive).bytes) # archive.uncompressedSize

SyncedFromArchive == sync_call.ran /\ fn_call.f = "load_miniserver_config"

\* C36: a synchronisation from an archive whose magic is not 0xAABBCCEE,
\* whose checksum is not the CRC32 of the decompressed data, or whose
\* uncompressed size is not the length of the decompressed data, fails, and
\* the whitelist of the configuration and the whitelist of the processor
\* are the ones from before it.
C36_BadArchiveKeepsWhitelist ==
    SyncedFromArchive /\ ArchiveRejected(fn_call.arg)
        => /\ sync_call.failed
           /\ ConfigWhitelist = sync_call.before_config
           /\ topic_whitelist = sync_call.before_processor

\* a synchronisation failed on an archive with the right magic and the
\* right size whose checksum is wrong, and the whitelist in effect is the
\* one a synchronisation before it had set
C36_Witness ==
    /\ SyncedFromArchive
    /\ fn_call.arg.header = LoxCCMagic
    /\ Decompressed(fn_call.arg).ok
    /\ Len(Decompressed(fn_call.arg).bytes) = fn_call.arg.uncompressedSize
    /\ fn_call.arg.checksum # Crc32(Decompressed(fn_call.arg).bytes)
    /\ sync_call.failed
    /\ topic_whitelist = WhitelistOf(Arr(<<TitleC, TitleAB, TitleC>>))
    /\ topic_whitelist = sync_call.before_processor

\* the JSON scalar string form of a leaf: numbers as written, true, false,
\* null, strings as their text
JsonScalarString(c) ==
    CASE c = PyTrue  -> <<"t","r","u","e">>
      [] c = PyFalse -> <<"f","a","l","s","e">>
      [] c = PyNone  -> <<"n","u","l","l">>
      [] OTHER       -> c.v

\* C37: for a payload that expanded to the leaves of a JSON object, every
\* emitted pair carries, as text, the conversion of the JSON scalar string
\* form of the leaf that expansion found at its path: true gives "1",
\* false "0", 1 "1" and 0 "0".
C37_LeafEmittedAsConvertedScalar ==
    ( /\ handled /\ ~raised /\ expand_json
      /\ ~Matches(compiled_subscription_filter, in_topic)
      /\ Loads(Message).ok /\ Loads(Message).val.t = "obj" )
        => \A i \in DOMAIN final_data :
               \E leaf \in Range(processed_tuples) :
                   /\ leaf.topic = final_data[i].topic
                   /\ PyStr(final_data[i].value)
                          = PyStr(ConvertBoolean(PyStrVal(JsonScalarString(leaf.value))))

\* the leaves that are strings, true or non-zero numbers are emitted as the
\* claim says
TruthyLeafEmittedAsConvertedScalar ==
    ( /\ handled /\ ~raised /\ expand_json
      /\ ~Matches(compiled_subscription_filter, in_topic)
      /\ Loads(Message).ok /\ Loads(Message).val.t = "obj" )
        => \A i \in DOMAIN final_data :
               \E leaf \in Range(processed_tuples) :
                   /\ leaf.topic = final_data[i].topic
                   /\ leaf.value \notin {PyFalse, PyNone}
                          => PyStr(final_data[i].value)
                                 = PyStr(ConvertBoolean(PyStrVal(JsonScalarString(leaf.value))))

\* C38: a client that marked itself connected has subscribed, in this
\* connection, to every subscription topic that the configuration held when
\* the connection was established and to every reserved topic.
C38_SubscribesConfiguredOnConnect ==
    client.link => client.configured \subseteq client.subscribed

\* a connected client has subscribed to every topic that the configuration
\* held when the relay started, and to every reserved topic
SubscribesStartupTopicsOnConnect ==
    client.link => Range(client.topics) \subseteq client.subscribed

\* the operation that ran last is a request on config/set, config/add or
\* config/remove that ended with an error
ChangeFailed == ctl.ran /\ Route(ctl.topic) = "change" /\ ctl.error # "none"

\* C39: after a configuration request that named an unknown field or failed
\* to apply, the configuration in memory and the configuration file are the
\* ones from before the request, and the relay was not restarted.
C39_ChangeIsAllOrNothing ==
    ChangeFailed
        => /\ config = ctl.before
           /\ config_file = ctl.before_file
           /\ ~ctl.restarted

\* a failed request restarts nothing, and the fields it does not name are
\* left as they were
FailedChangeRestartsNothing ==
    ChangeFailed
        => /\ ~ctl.restarted
           /\ Loads(ctl.message).ok /\ Loads(ctl.message).val.t = "obj"
                  => \A section \in ConfigSection :
                         \A j \in DOMAIN config[section] :
                             (\A m \in Range(Loads(ctl.message).val.v) :
                                  m.k # config[section][j].k)
                                 => config[section][j] = ctl.before[section][j]

\* C40: a call of _convert_boolean through the cache returns what the
\* function computes for its argument, whatever was called before.
C40_CacheIsTransparent ==
    fn_call.f = "_convert_boolean" => fn_call.res = ConvertBoolean(fn_call.arg)

\* for strings the cache is transparent
CacheIsTransparentForStrings ==
    fn_call.f = "_convert_boolean" /\ fn_call.arg.t = "str"
        => fn_call.res = ConvertBoolean(fn_call.arg)

====
